---- MODULE Spec2Model ----
(***************************************************************************)
(* Model of the medical-data catalogue browser: the line-oriented markdown *)
(* parser of medical_data/browser.py (MedicalDataBrowser.parse_readme and  *)
(* _parse_dataset_section) and the queries over the parsed record list.    *)
(*                                                                         *)
(* A Python str is modelled as a sequence of one-character strings, so     *)
(* that strip, lower, startswith, "in" and the regular expressions are     *)
(* computed character by character as the code computes them.              *)
(***************************************************************************)
EXTENDS Integers, Sequences, FiniteSets, TLC

\* ------------------------------------------------------------------------
\* Characters and the str methods the parser uses
\* ------------------------------------------------------------------------

\* Python's None (distinct from every str, the empty str included).
None == <<"None">>

\* The backquote character, which a TLA+ string literal cannot hold.
Backquote == "BACKQUOTE"

UpperCase ==
    <<"A","B","C","D","E","F","G","H","I","J","K","L","M","N","O","P","Q","R","S","T","U","V","W","X","Y","Z">>

LowerCase ==
    <<"a","b","c","d","e","f","g","h","i","j","k","l","m","n","o","p","q","r","s","t","u","v","w","x","y","z">>

\* The characters str.strip() removes and the regex class \s matches (ASCII).
Whitespace == {" ", "\t", "\n", "\r", "\f"}

\* The regex class \d.
Digits == {"0","1","2","3","4","5","6","7","8","9"}

Min(S) == CHOOSE x \in S : \A y \in S : x <= y

Max(S) == CHOOSE x \in S : \A y \in S : x >= y

\* The lower-case letter of each upper-case letter.
ToLower == [c \in {UpperCase[i] : i \in 1..26} |->
               LowerCase[CHOOSE i \in 1..26 : UpperCase[i] = c]]

lower_char(c) == IF c \in DOMAIN ToLower THEN ToLower[c] ELSE c

\* str.lower()
lower(s) == [i \in 1..Len(s) |-> lower_char(s[i])]

\* First index >= i of s whose character is outside (inside) `chars`;
\* Len(s) + 1 when there is none: where a greedy character class stops.
skip_while(s, i, chars) ==
    IF i > Len(s) THEN i
    ELSE CHOOSE j \in i..(Len(s) + 1) :
             /\ j > Len(s) \/ s[j] \notin chars
             /\ \A k \in i..(j - 1) : s[k] \in chars

skip_until(s, i, chars) ==
    IF i > Len(s) THEN i
    ELSE CHOOSE j \in i..(Len(s) + 1) :
             /\ j > Len(s) \/ s[j] \in chars
             /\ \A k \in i..(j - 1) : s[k] \notin chars

\* Last index <= i of s whose character is outside `chars`; 0 when there is none.
skip_back(s, i, chars) ==
    IF i < 1 THEN i
    ELSE CHOOSE j \in 0..i :
             /\ j = 0 \/ s[j] \notin chars
             /\ \A k \in (j + 1)..i : s[k] \in chars

\* str.strip()
strip(s) == SubSeq(s, skip_while(s, 1, Whitespace), skip_back(s, Len(s), Whitespace))

\* s[i:].startswith(p), i counted from 1
startswith_at(s, i, p) ==
    /\ i + Len(p) - 1 <= Len(s)
    /\ \A j \in 1..Len(p) : s[i + j - 1] = p[j]

\* str.startswith(p)
startswith(s, p) == startswith_at(s, 1, p)

\* p in s
contains(s, p) == \E i \in 1..(Len(s) + 1) : startswith_at(s, i, p)

\* sep.join(parts)
RECURSIVE join(_, _)
join(sep, parts) ==
    IF parts = <<>> THEN <<>>
    ELSE IF Len(parts) = 1 THEN parts[1]
    ELSE parts[1] \o sep \o join(sep, Tail(parts))

\* text.split("\n"): never the empty list, "" splits to [""].
RECURSIVE split_lines(_)
split_lines(text) ==
    LET nl == skip_until(text, 1, {"\n"})
    IN  IF nl > Len(text) THEN <<text>>
        ELSE <<SubSeq(text, 1, nl - 1)>> \o split_lines(SubSeq(text, nl + 1, Len(text)))

\* What a call did, as the model records it: it returned `ret`, or it raised
\* the exception `exc`.
Returned(call, args, ret) == [call |-> call, args |-> args, ret |-> ret, exc |-> ""]

Raised(call, args, exc) == [call |-> call, args |-> args, ret |-> None, exc |-> exc]

\* ------------------------------------------------------------------------
\* Regular expressions of browser.py
\* ------------------------------------------------------------------------

\* re.match(r"^##\s+\d+\.\s+(.+)$", text): group(1), or None without a match.
\* The greedy \s+ before the group gives back one character when it ran to
\* the end of the text, so that (.+) has something to match.
category_match(text) ==
    LET n == Len(text)
        a == skip_while(text, 3, Whitespace)
        b == skip_while(text, a, Digits)
        c == skip_while(text, b + 1, Whitespace)
    IN  IF /\ startswith(text, <<"#","#">>)
           /\ a > 3
           /\ b > a
           /\ b <= n
           /\ text[b] = "."
           /\ c > b + 1
        THEN IF c <= n THEN SubSeq(text, c, n)
             ELSE IF c - 1 > b + 1 THEN SubSeq(text, c - 1, n)
             ELSE None
        ELSE None

\* The characters that end a URL: [^\s\)]
UrlStop == Whitespace \cup {")"}

\* Variant: the URL class is [^\s]+, a ")" does not end the URL.
extract_url_through_paren(text) ==
    LET n == Len(text)
        body(p) ==
            IF /\ startswith_at(text, p, <<"h","t","t","p","s",":","/","/">>)
               /\ p + 8 <= n
               /\ text[p + 8] \notin Whitespace
            THEN p + 8
            ELSE IF /\ startswith_at(text, p, <<"h","t","t","p",":","/","/">>)
                    /\ p + 7 <= n
                    /\ text[p + 7] \notin Whitespace
            THEN p + 7
            ELSE 0
        starts == {p \in 1..n : body(p) # 0}
    IN  IF starts = {} THEN None
        ELSE LET p == Min(starts)
             IN  SubSeq(text, p, skip_until(text, body(p), Whitespace) - 1)

\* re.compile(r"https?://[^\s\)]+").search(text): group(0) of the leftmost
\* match, or None.
extract_url(text) ==
    LET n == Len(text)
        \* index of the first character after "://" for a match starting at p, else 0
        body(p) ==
            IF /\ startswith_at(text, p, <<"h","t","t","p","s",":","/","/">>)
               /\ p + 8 <= n
               /\ text[p + 8] \notin UrlStop
            THEN p + 8
            ELSE IF /\ startswith_at(text, p, <<"h","t","t","p",":","/","/">>)
                    /\ p + 7 <= n
                    /\ text[p + 7] \notin UrlStop
            THEN p + 7
            ELSE 0
        starts == {p \in 1..n : body(p) # 0}
    IN  IF starts = {} THEN None
        ELSE LET p == Min(starts)
             IN  SubSeq(text, p, skip_until(text, body(p), UrlStop) - 1)

\* re.sub(D + r"(.+?)" + D, r"\1", text) for a literal delimiter D: every
\* leftmost, shortest D...D pair with at least one character inside loses
\* its two delimiters.
RECURSIVE sub_delimited(_, _)
sub_delimited(text, d) ==
    IF text = <<>> THEN <<>>
    ELSE IF startswith(text, d)
    THEN LET k == Len(d)
             closes == {q \in (k + 2)..(Len(text) - k + 1) : startswith_at(text, q, d)}
         IN  IF closes = {}
             THEN <<Head(text)>> \o sub_delimited(Tail(text), d)
             ELSE LET q == Min(closes)
                  IN  SubSeq(text, k + 1, q - 1)
                        \o sub_delimited(SubSeq(text, q + k, Len(text)), d)
    ELSE \* nothing can match before the next first character of the delimiter
         LET n == skip_until(text, 2, {d[1]})
         IN  SubSeq(text, 1, n - 1) \o sub_delimited(SubSeq(text, n, Len(text)), d)

\* re.sub(r"\[([^\]]+)\]\([^\)]+\)", r"\1", text): [label](target) -> label
RECURSIVE sub_links(_)
sub_links(text) ==
    IF text = <<>> THEN <<>>
    ELSE IF Head(text) = "["
    THEN LET n == Len(text)
             e == skip_until(text, 2, {"]"})
             f == skip_until(text, e + 2, {")"})
         IN  IF e > 2 /\ e + 1 <= n /\ text[e + 1] = "(" /\ f > e + 2 /\ f <= n
             THEN SubSeq(text, 2, e - 1) \o sub_links(SubSeq(text, f + 1, n))
             ELSE <<Head(text)>> \o sub_links(Tail(text))
    ELSE LET n == skip_until(text, 2, {"["})
         IN  SubSeq(text, 1, n - 1) \o sub_links(SubSeq(text, n, Len(text)))

\* MedicalDataBrowser._clean_markdown
clean_markdown(text) ==
    LET bold == sub_delimited(text, <<"_","_">>)
        star == sub_delimited(bold, <<"*">>)
        under == sub_delimited(star, <<"_">>)
        code == sub_delimited(under, <<Backquote>>)
    IN  strip(sub_links(code))

\* ------------------------------------------------------------------------
\* Record finalization: MedicalDataBrowser._parse_dataset_section
\* ------------------------------------------------------------------------

\* The metadata a section starts with (browser.py, "Initialize metadata").
InitialMetadata ==
    [description_lines |-> <<>>,
     paper_url |-> None,
     access_url |-> None,
     data_url |-> None,
     information_url |-> None,
     overview_url |-> None,
     requires_registration |-> FALSE]

\* Variant: the delimiters are stripped from both ends of the line.
dataset_name_stripping_delimiters(first_line) ==
    LET s == strip(first_line)
    IN  SubSeq(s, skip_while(s, 1, {"_"}), skip_back(s, Len(s), {"_"}))

\* The name of a record: the stripped first line without its __ delimiters.
dataset_name(first_line) == sub_delimited(strip(first_line), <<"_","_">>)

\* Variant: the phrase is looked for in the line as written (no lower()).
registration_in_as_written(line) == contains(line, <<"r","e","q","u","i","r","e","s"," ","r","e","g","i","s","t","r","a","t","i","o","n">>)

\* "requires registration" in line.lower()
registration_in(line) == contains(lower(line), <<"r","e","q","u","i","r","e","s"," ","r","e","g","i","s","t","r","a","t","i","o","n">>)

\* The URL field a stripped line sets, by its lower-cased prefix; "" for a
\* description line (the if/elif chain over line_lower).
url_field(line) ==
    LET line_lower == lower(line)
    IN  IF startswith(line_lower, <<"p","a","p","e","r",":">>) THEN "paper_url"
        ELSE IF startswith(line_lower, <<"a","c","c","e","s","s",":">>) THEN "access_url"
        ELSE IF startswith(line_lower, <<"d","a","t","a",":">>) THEN "data_url"
        ELSE IF startswith(line_lower, <<"i","n","f","o","r","m","a","t","i","o","n",":">>) THEN "information_url"
        ELSE IF startswith(line_lower, <<"o","v","e","r","v","i","e","w",":">>) THEN "overview_url"
        ELSE ""

\* Variant: a line with the registration phrase sets the flag and nothing else.
parse_section_line_consuming(m, raw_line) ==
    LET line == strip(raw_line)
        f == url_field(line)
        clean_line == clean_markdown(line)
    IN  IF line = <<>> THEN m
        ELSE IF registration_in(line) THEN [m EXCEPT !.requires_registration = TRUE]
        ELSE IF f # "" THEN [m EXCEPT ![f] = extract_url(line)]
        ELSE IF clean_line # <<>>
        THEN [m EXCEPT !.description_lines = Append(@, clean_line)]
        ELSE m

\* One iteration of "for line in lines[1:]" on the metadata m.
parse_section_line(m, raw_line) ==
    LET line == strip(raw_line)
        m1 == IF registration_in(line)
              THEN [m EXCEPT !.requires_registration = TRUE]
              ELSE m
        f == url_field(line)
        clean_line == clean_markdown(line)
    IN  IF line = <<>> THEN m
        ELSE IF f # "" THEN [m1 EXCEPT ![f] = extract_url(line)]
        ELSE IF clean_line # <<>>
        THEN [m1 EXCEPT !.description_lines = Append(@, clean_line)]
        ELSE m1

RECURSIVE parse_section_lines(_, _)

\* Variant: a URL field that is set is not assigned again.
parse_section_lines_keeping_first(m, rest) ==
    LET keep(old, new) ==
            [f \in DOMAIN new |->
                IF f \notin {"description_lines", "requires_registration"} /\ old[f] # None
                THEN old[f] ELSE new[f]]
        after[i \in 0..Len(rest)] ==
            IF i = 0 THEN m
            ELSE keep(after[i - 1], parse_section_line(after[i - 1], rest[i]))
    IN  after[Len(rest)]

\* "for line in lines[1:]"
parse_section_lines(m, rest) ==
    IF rest = <<>> THEN m
    ELSE parse_section_lines(parse_section_line(m, Head(rest)), Tail(rest))

\* Variant: any mention of registration in a line of the section sets the flag.
MedicalDataset_flagging_mentions(lines, category) ==
    LET m == parse_section_lines(InitialMetadata, Tail(lines))
        mention == <<"r","e","g","i","s","t","r","a","t","i","o","n">>
    IN  [name |-> dataset_name(lines[1]),
         category |-> category,
         description |-> join(<<" ">>, m.description_lines),
         paper_url |-> m.paper_url,
         access_url |-> m.access_url,
         data_url |-> m.data_url,
         information_url |-> m.information_url,
         overview_url |-> m.overview_url,
         requires_registration |->
             \/ m.requires_registration
             \/ \E i \in 1..Len(lines) : contains(lower(lines[i]), mention),
         raw_text |-> join(<<"\n">>, lines)]

\* The MedicalDataset that _parse_dataset_section builds from a non-empty
\* buffer of lines and the active category.
MedicalDataset(lines, category) ==
    LET m == parse_section_lines(InitialMetadata, Tail(lines))
    IN  [name |-> dataset_name(lines[1]),
         category |-> category,
         description |-> join(<<" ">>, m.description_lines),
         paper_url |-> m.paper_url,
         access_url |-> m.access_url,
         data_url |-> m.data_url,
         information_url |-> m.information_url,
         overview_url |-> m.overview_url,
         requires_registration |-> m.requires_registration,
         raw_text |-> join(<<"\n">>, lines)]

\* Variant: the new record goes to the front of self.datasets.
parse_dataset_section_in_front(datasets_, lines, category) ==
    IF lines = <<>> THEN datasets_
    ELSE <<MedicalDataset(lines, category)>> \o datasets_

\* self.datasets after _parse_dataset_section(lines, category): nothing is
\* added for an empty buffer, else the new record goes to the end.
parse_dataset_section(datasets_, lines, category) ==
    IF lines = <<>> THEN datasets_
    ELSE Append(datasets_, MedicalDataset(lines, category))

\* ------------------------------------------------------------------------
\* The line loop of MedicalDataBrowser.parse_readme
\* ------------------------------------------------------------------------

\* category_match is truthy
is_category_header(line) == category_match(strip(line)) # None

\* line.strip() == "***"
is_separator(line) == strip(line) = <<"*","*","*">>

\* Variant: a title is honoured with no category active.
is_dataset_start_anywhere(line, category) == startswith(strip(line), <<"_","_">>)

\* line.strip().startswith("__") and current_category
is_dataset_start(line, category) ==
    startswith(strip(line), <<"_","_">>) /\ category # <<>>

\* Variant: every line inside a record is accumulated, blank ones too.
is_accumulated_with_blanks(line, in_dataset_) == in_dataset_

\* in_dataset and line.strip()
is_accumulated(line, in_dataset_) == in_dataset_ /\ strip(line) # <<>>

\* "if current_dataset_lines and current_category: self._parse_dataset_section(...)"
save_previous(loc) ==
    IF loc.current_dataset_lines # <<>> /\ loc.current_category # <<>>
    THEN parse_dataset_section(loc.datasets, loc.current_dataset_lines, loc.current_category)
    ELSE loc.datasets

\* Variant: the category changes before the pending record is saved.
on_category_header_late_save(loc, line) ==
    LET category == strip(category_match(strip(line)))
    IN  [current_category |-> category,
         current_dataset_lines |-> <<>>,
         in_dataset |-> FALSE,
         datasets |-> save_previous([loc EXCEPT !.current_category = category])]

\* The category-header branch: the pending record is saved under the old
\* category, then the category changes and the buffer is reset.
on_category_header(loc, line) ==
    [current_category |-> strip(category_match(strip(line))),
     current_dataset_lines |-> <<>>,
     in_dataset |-> FALSE,
     datasets |-> save_previous(loc)]

\* Variant: "***" saves the pending record but stays inside a record.
on_separator_staying_in_dataset(loc) ==
    [current_category |-> loc.current_category,
     current_dataset_lines |-> <<>>,
     in_dataset |-> loc.in_dataset,
     datasets |-> save_previous(loc)]

\* The "***" branch.
on_separator(loc) ==
    [current_category |-> loc.current_category,
     current_dataset_lines |-> <<>>,
     in_dataset |-> FALSE,
     datasets |-> save_previous(loc)]

\* Variant: a title does not close the pending record, it joins its buffer.
on_dataset_start_merging(loc, line) ==
    IF loc.current_dataset_lines # <<>>
    THEN [loc EXCEPT !.current_dataset_lines = Append(@, line)]
    ELSE [loc EXCEPT !.current_dataset_lines = <<line>>, !.in_dataset = TRUE]

\* The dataset-start branch (taken only with a category active): the pending
\* record is saved and the buffer restarts with this line.
on_dataset_start(loc, line) ==
    [current_category |-> loc.current_category,
     current_dataset_lines |-> <<line>>,
     in_dataset |-> TRUE,
     datasets |-> IF loc.current_dataset_lines # <<>>
                  THEN parse_dataset_section(loc.datasets, loc.current_dataset_lines,
                                             loc.current_category)
                  ELSE loc.datasets]

\* The last "if" of the loop body: a non-blank line inside a record is
\* appended to the buffer.
on_other_line(loc, line) ==
    IF is_accumulated(line, loc.in_dataset)
    THEN [loc EXCEPT !.current_dataset_lines = Append(@, line)]
    ELSE loc

\* One iteration of "for line in lines".
loop_body(loc, line) ==
    IF is_category_header(line) THEN on_category_header(loc, line)
    ELSE IF is_separator(line) THEN on_separator(loc)
    ELSE IF is_dataset_start(line, loc.current_category) THEN on_dataset_start(loc, line)
    ELSE on_other_line(loc, line)

RECURSIVE loop(_, _)
loop(loc, rest) ==
    IF rest = <<>> THEN loc ELSE loop(loop_body(loc, Head(rest)), Tail(rest))

\* The locals of parse_readme before the loop, with self.datasets as found.
initial_locals(datasets_) ==
    [current_category |-> <<>>,
     current_dataset_lines |-> <<>>,
     in_dataset |-> FALSE,
     datasets |-> datasets_]

\* self.datasets after a whole parse_readme over the lines of a document,
\* started with self.datasets = datasets_ ("Handle last dataset" included).
parse_lines(datasets_, lines) == save_previous(loop(initial_locals(datasets_), lines))

\* ------------------------------------------------------------------------
\* Queries
\* ------------------------------------------------------------------------

\* Variant: the query is lower-cased whatever case_sensitive says.
search_datasets_lowering_query(datasets_, query, case_sensitive) ==
    LET q == lower(query)
        search_text(d) ==
            LET text == d.name \o <<" ">> \o d.description
            IN  IF case_sensitive THEN text ELSE lower(text)
    IN  SelectSeq(datasets_, LAMBDA d : contains(search_text(d), q))

\* MedicalDataBrowser.search_datasets
search_datasets(datasets_, query, case_sensitive) ==
    LET q == IF case_sensitive THEN query ELSE lower(query)
        search_text(d) ==
            LET text == d.name \o <<" ">> \o d.description
            IN  IF case_sensitive THEN text ELSE lower(text)
    IN  SelectSeq(datasets_, LAMBDA d : contains(search_text(d), q))

\* Variant: the category is compared ignoring letter case.
browse_by_category_ignoring_case(datasets_, category) ==
    SelectSeq(datasets_, LAMBDA d : lower(d.category) = lower(category))

\* MedicalDataBrowser.browse_by_category
browse_by_category(datasets_, category) ==
    SelectSeq(datasets_, LAMBDA d : d.category = category)

\* The dict category_counts as its items() in insertion order.
RECURSIVE category_counts(_, _)
category_counts(items, rest) ==
    IF rest = <<>> THEN items
    ELSE LET c == Head(rest).category
             seen == {i \in 1..Len(items) : items[i][1] = c}
         IN  IF seen = {}
             THEN category_counts(Append(items, <<c, 1>>), Tail(rest))
             ELSE LET i == CHOOSE j \in seen : TRUE
                  IN  category_counts([items EXCEPT ![i] = <<c, items[i][2] + 1>>], Tail(rest))

\* Variant: an ascending sort that is reversed: equal counts come out in
\* reverse order of items.
RECURSIVE sorted_by_count_desc_reversed(_)
sorted_by_count_desc_reversed(items) ==
    IF items = <<>> THEN <<>>
    ELSE LET top == Max({items[i][2] : i \in 1..Len(items)})
             i == Max({j \in 1..Len(items) : items[j][2] = top})
         IN  <<items[i]>> \o sorted_by_count_desc_reversed(SubSeq(items, 1, i - 1)
                                                    \o SubSeq(items, i + 1, Len(items)))

\* sorted(items, key=lambda x: x[1], reverse=True): stable, so equal counts
\* keep their order in items.
RECURSIVE sorted_by_count_desc(_)
sorted_by_count_desc(items) ==
    IF items = <<>> THEN <<>>
    ELSE LET top == Max({items[i][2] : i \in 1..Len(items)})
             i == Min({j \in 1..Len(items) : items[j][2] = top})
         IN  <<items[i]>> \o sorted_by_count_desc(SubSeq(items, 1, i - 1)
                                                    \o SubSeq(items, i + 1, Len(items)))

\* MedicalDataBrowser.list_categories
list_categories(datasets_) == sorted_by_count_desc(category_counts(<<>>, datasets_))

\* Python's None where a MedicalDataset is expected.
NotFound == [found |-> FALSE]

\* Variant: the loop does not return at the first hit, the last hit is returned.
get_dataset_by_name_last_hit(datasets_, name, exact_match) ==
    LET name_lower == lower(name)
        hit(d) == IF exact_match THEN lower(d.name) = name_lower
                  ELSE contains(lower(d.name), name_lower)
        hits == {i \in 1..Len(datasets_) : hit(datasets_[i])}
    IN  IF hits = {} THEN NotFound ELSE datasets_[Max(hits)]

\* MedicalDataBrowser.get_dataset_by_name: the first dataset of the loop that
\* returns, None when the loop ends.
get_dataset_by_name(datasets_, name, exact_match) ==
    LET name_lower == lower(name)
        hit(d) == IF exact_match THEN lower(d.name) = name_lower
                  ELSE contains(lower(d.name), name_lower)
        hits == {i \in 1..Len(datasets_) : hit(datasets_[i])}
    IN  IF hits = {} THEN NotFound ELSE datasets_[Min(hits)]

\* ------------------------------------------------------------------------
\* medical_data_browser.py, the older parser: _extract_dataset_info
\* ------------------------------------------------------------------------

\* "if not name or len(name) < 3: return None": whether a section with this
\* name yields a record.
name_is_kept(name) == ~(name = <<>> \/ Len(name) < 3)

\* information_url after the lines `rest` of a section, starting from `url`:
\* an "information:" line sets it, an "overview:" line sets it only while it
\* is not set.
RECURSIVE information_url_with_fallback(_, _)
information_url_with_fallback(url, rest) ==
    IF rest = <<>> THEN url
    ELSE LET line == strip(Head(rest))
             line_lower == lower(line)
         IN  IF startswith(line_lower, <<"i","n","f","o","r","m","a","t","i","o","n",":">>)
             THEN information_url_with_fallback(extract_url(line), Tail(rest))
             ELSE IF startswith(line_lower, <<"o","v","e","r","v","i","e","w",":">>) /\ url = None
             THEN information_url_with_fallback(extract_url(line), Tail(rest))
             ELSE information_url_with_fallback(url, Tail(rest))

\* ------------------------------------------------------------------------
\* utils.py
\* ------------------------------------------------------------------------

\* The keywords of check_registration_required.
RegistrationKeywords ==
    {<<"r","e","q","u","i","r","e","s"," ","r","e","g","i","s","t","r","a","t","i","o","n">>,
     <<"r","e","g","i","s","t","r","a","t","i","o","n"," ","r","e","q","u","i","r","e","d">>,
     <<"s","i","g","n"," ","u","p"," ","r","e","q","u","i","r","e","d">>,
     <<"a","c","c","o","u","n","t"," ","r","e","q","u","i","r","e","d">>}

\* utils.check_registration_required
check_registration_required(text) ==
    \E keyword \in RegistrationKeywords : contains(lower(text), keyword)

\* ------------------------------------------------------------------------
\* medical_data/utils.py: filter_datasets
\* ------------------------------------------------------------------------

\* The attributes of a MedicalDataset that hold a str, and those that hold a
\* str or None; requires_registration holds a bool.
StringFields == {"name", "category", "description", "raw_text"}

OptionalFields == {"paper_url", "access_url", "data_url", "information_url", "overview_url"}

\* isinstance(actual_value, str) for the value of the attribute attr
is_str(attr, actual_value) ==
    \/ attr \in StringFields
    \/ attr \in OptionalFields /\ actual_value # None

\* A criterion is one item of the criteria dict: the attribute name and the
\* expected value, which is a str ("str"), a bool ("bool"), None ("none") or a
\* function ("callable", value naming it).
Criterion(attr, kind, value) == [attr |-> attr, kind |-> kind, value |-> value]

\* The predicates of the examples: "lambda url: url is not None" and
\* "lambda desc: len(desc) > 50".
apply_predicate(predicate, attr, actual_value) ==
    IF predicate = "is_not_none"
    THEN attr \notin OptionalFields \/ actual_value # None
    ELSE Len(actual_value) > 50

\* actual_value == expected_value for a literal that is not matched as a
\* substring: values of different types are never equal.
literal_equals(attr, actual_value, criterion) ==
    IF criterion.kind = "bool"
    THEN attr \notin StringFields \cup OptionalFields /\ actual_value = criterion.value
    ELSE IF criterion.kind = "none"
    THEN attr \in OptionalFields /\ actual_value = None
    ELSE is_str(attr, actual_value) /\ actual_value = criterion.value

\* Variant: a str literal is compared by equality, like every other literal.
criterion_matches_by_equality(dataset, criterion) ==
    IF criterion.attr \notin DOMAIN dataset THEN FALSE
    ELSE LET actual_value == dataset[criterion.attr]
         IN  IF criterion.kind = "callable"
             THEN apply_predicate(criterion.value, criterion.attr, actual_value)
             ELSE literal_equals(criterion.attr, actual_value, criterion)

\* What the inner loop appends to matches for one item of criteria.
criterion_matches(dataset, criterion) ==
    IF criterion.attr \notin DOMAIN dataset THEN FALSE
    ELSE LET actual_value == dataset[criterion.attr]
         IN  IF criterion.kind = "callable"
             THEN apply_predicate(criterion.value, criterion.attr, actual_value)
             ELSE IF criterion.kind = "str" /\ is_str(criterion.attr, actual_value)
             THEN contains(lower(actual_value), lower(criterion.value))
             ELSE literal_equals(criterion.attr, actual_value, criterion)

\* Variant: a criterion on an attribute the record lacks is skipped instead
\* of counted as a miss.
filter_datasets_skipping_missing(datasets_, criteria, match_all) ==
    IF criteria = <<>> THEN datasets_
    ELSE LET matches(d) ==
                 LET present == SelectSeq(criteria, LAMBDA c : c.attr \in DOMAIN d)
                 IN  [i \in 1..Len(present) |-> criterion_matches(d, present[i])]
             all(m) == \A i \in 1..Len(m) : m[i]
             any(m) == \E i \in 1..Len(m) : m[i]
         IN  SelectSeq(datasets_,
                       LAMBDA d : \/ match_all /\ all(matches(d))
                                  \/ ~match_all /\ any(matches(d)))

\* utils.filter_datasets, criteria being the items of the dict in order.
filter_datasets(datasets_, criteria, match_all) ==
    IF criteria = <<>> THEN datasets_
    ELSE LET matches(d) == [i \in 1..Len(criteria) |-> criterion_matches(d, criteria[i])]
             all(m) == \A i \in 1..Len(m) : m[i]
             any(m) == \E i \in 1..Len(m) : m[i]
         IN  SelectSeq(datasets_,
                       LAMBDA d : \/ match_all /\ all(matches(d))
                                  \/ ~match_all /\ any(matches(d)))

\* ------------------------------------------------------------------------
\* medical_data/utils.py: create_summary_statistics
\* ------------------------------------------------------------------------

\* float("inf"), as a number above every length a description has here.
Infinity == 1000000

\* bool(value) of a str or None attribute
truthy(value) == value # None /\ value # <<>>

\* stats after the loop body has run for one dataset.
stats_with(stats, dataset) ==
    LET desc_len == Len(dataset.description)
        described == dataset.description # <<>>
        ds == stats.description_statistics
        access_attrs == {a \in OptionalFields \ {"paper_url"} : truthy(dataset[a])}
        has_paper == truthy(dataset.paper_url)
        bump(n, cond) == IF cond THEN n + 1 ELSE n
    IN  [total_datasets |-> stats.total_datasets,
         categories |-> stats.categories \cup {dataset.category},
         category_counts |-> category_counts(stats.category_counts, <<dataset>>),
         datasets_with_papers |-> bump(stats.datasets_with_papers, has_paper),
         datasets_with_access |-> bump(stats.datasets_with_access, access_attrs # {}),
         datasets_requiring_registration |->
             bump(stats.datasets_requiring_registration, dataset.requires_registration),
         \* url_statistics is keyed by attribute here, by attribute + "s" in the code
         url_statistics |->
             [a \in OptionalFields |->
                 bump(stats.url_statistics[a],
                      IF a = "paper_url" THEN has_paper ELSE a \in access_attrs)],
         description_statistics |->
             [with_description |-> bump(ds.with_description, described),
              average_description_length |-> ds.average_description_length,
              max_description_length |->
                  IF described THEN Max({ds.max_description_length, desc_len})
                  ELSE ds.max_description_length,
              min_description_length |->
                  IF described THEN Min({ds.min_description_length, desc_len})
                  ELSE ds.min_description_length],
         description_lengths |-> IF described THEN Append(stats.description_lengths, desc_len)
                                 ELSE stats.description_lengths]

RECURSIVE stats_loop(_, _)
stats_loop(stats, rest) ==
    IF rest = <<>> THEN stats ELSE stats_loop(stats_with(stats, Head(rest)), Tail(rest))

RECURSIVE sum(_)
sum(numbers) == IF numbers = <<>> THEN 0 ELSE Head(numbers) + sum(Tail(numbers))

\* Variant: the minimum is left as the loop found it.
stats_finished_without_reset(stats) ==
    [stats EXCEPT
        !.description_statistics.average_description_length =
            IF stats.description_lengths # <<>>
            THEN [num |-> sum(stats.description_lengths), den |-> Len(stats.description_lengths)]
            ELSE @]

\* "Calculate averages": the average as the fraction num / den, and the
\* minimum reset to 0 when no description was seen.
stats_finished(stats) ==
    IF stats.description_lengths # <<>>
    THEN [stats EXCEPT !.description_statistics.average_description_length =
             [num |-> sum(stats.description_lengths), den |-> Len(stats.description_lengths)]]
    ELSE [stats EXCEPT !.description_statistics.min_description_length = 0]

\* stats as create_summary_statistics sets it up for a non-empty list.
initial_stats(datasets_) ==
    [total_datasets |-> Len(datasets_),
     categories |-> {},
     category_counts |-> <<>>,
     datasets_with_papers |-> 0,
     datasets_with_access |-> 0,
     datasets_requiring_registration |-> 0,
     url_statistics |-> [a \in OptionalFields |-> 0],
     description_statistics |->
         [with_description |-> 0,
          average_description_length |-> [num |-> 0, den |-> 1],
          max_description_length |-> 0,
          min_description_length |-> Infinity],
     description_lengths |-> <<>>]

\* utils.create_summary_statistics: what the call returns, or the ValueError
\* it raises for the empty list.
create_summary_statistics(datasets_) ==
    IF datasets_ = <<>>
    THEN Raised("create_summary_statistics", <<>>, "ValueError")
    ELSE LET stats == stats_finished(stats_loop(initial_stats(datasets_), datasets_))
         IN  Returned("create_summary_statistics", <<>>,
                      [total_datasets |-> stats.total_datasets,
                       categories |-> stats.categories,
                       category_counts |-> stats.category_counts,
                       datasets_with_papers |-> stats.datasets_with_papers,
                       datasets_with_access |-> stats.datasets_with_access,
                       datasets_requiring_registration |->
                           stats.datasets_requiring_registration,
                       url_statistics |-> stats.url_statistics,
                       description_statistics |-> stats.description_statistics,
                       unique_categories |-> Cardinality(stats.categories)])

\* ------------------------------------------------------------------------
\* medical_data/utils.py: truncate_text and format_dataset_output
\* ------------------------------------------------------------------------

\* " ".join(text.split()): the words of text with one space between them.
RECURSIVE join_words(_)
join_words(text) ==
    LET a == skip_while(text, 1, Whitespace)
        b == skip_until(text, a, Whitespace)
        rest == join_words(SubSeq(text, b, Len(text)))
    IN  IF a > Len(text) THEN <<>>
        ELSE IF rest = <<>> THEN SubSeq(text, a, b - 1)
        ELSE SubSeq(text, a, b - 1) \o <<" ">> \o rest

\* text.rfind(" ", 0, end): the last index (from 0) below end that holds a
\* space, -1 without one.
rfind_space(text, end) ==
    Max({i - 1 : i \in {j \in 1..Min({end, Len(text)}) : text[j] = " "}} \cup {-1})

\* str.rstrip()
rstrip(text) == SubSeq(text, 1, skip_back(text, Len(text), Whitespace))

\* utils.truncate_text, for max_length >= len(suffix) (below that it raises
\* ValueError; format_dataset_output calls it with 100 and "...").
truncate_text(text, max_length, suffix, respect_word_boundaries) ==
    LET cleaned == join_words(text)
        at == max_length - Len(suffix)
        last_space == rfind_space(cleaned, at)
        truncate_at == IF respect_word_boundaries /\ at > 0 /\ last_space > 0
                       THEN last_space ELSE at
    IN  IF Len(cleaned) <= max_length THEN cleaned
        ELSE rstrip(SubSeq(cleaned, 1, truncate_at)) \o suffix

\* The characters of the warning sign of "Registration Required", which a
\* TLA+ string literal is not written with.
WarningSign == <<"U+26A0", "U+FE0F">>

\* 'Description: '
DescriptionLabel == <<"D","e","s","c","r","i","p","t","i","o","n",":"," ">>

\* The labels of the URL lines, in the order of url_fields.
UrlLabels ==
    << <<<<"P","a","p","e","r",":"," ">>, "paper_url">>,
       <<<<"A","c","c","e","s","s",":"," ">>, "access_url">>,
       <<<<"D","a","t","a",":"," ">>, "data_url">>,
       <<<<"I","n","f","o","r","m","a","t","i","o","n",":"," ">>, "information_url">>,
       <<<<"O","v","e","r","v","i","e","w",":"," ">>, "overview_url">> >>

\* utils.format_dataset_output
format_dataset_output(dataset, detailed, include_urls, indent) ==
    LET indent_str == [i \in 1..indent |-> " "]
        basic == <<<<"N","a","m","e",":"," ">> \o dataset.name, <<"C","a","t","e","g","o","r","y",":"," ">> \o dataset.category>>
        description ==
            IF "description" \in DOMAIN dataset /\ dataset.description # <<>>
            THEN IF detailed THEN <<DescriptionLabel \o dataset.description>>
                 ELSE <<DescriptionLabel
                          \o truncate_text(dataset.description, 100, <<".",".",".">>, TRUE)>>
            ELSE <<>>
        shown == SelectSeq(UrlLabels,
                           LAMBDA u : u[2] \in DOMAIN dataset /\ truthy(dataset[u[2]]))
        urls == IF include_urls
                THEN [i \in 1..Len(shown) |-> shown[i][1] \o dataset[shown[i][2]]]
                ELSE <<>>
        registration ==
            IF "requires_registration" \in DOMAIN dataset /\ dataset.requires_registration
            THEN <<WarningSign \o <<" "," ","R","e","g","i","s","t","r","a","t","i","o","n"," ","R","e","q","u","i","r","e","d">>>>
            ELSE <<>>
        lines == basic \o description \o urls \o registration
    IN  join(<<"\n">>, [i \in 1..Len(lines) |-> indent_str \o lines[i]])

\* ------------------------------------------------------------------------
\* JSON export: MedicalDataset.to_dict, utils.export_datasets_to_json and the
\* json module
\* ------------------------------------------------------------------------

\* The values json handles, tagged with their Python type; a dict is the
\* sequence of its items, in insertion order.
JStr(s) == [t |-> "str", v |-> s]

JNull == [t |-> "null", v |-> <<>>]

JBool(b) == [t |-> "bool", v |-> b]

JInt(n) == [t |-> "int", v |-> n]

JList(items) == [t |-> "list", v |-> items]

JDict(items) == [t |-> "dict", v |-> items]

\* What json.load makes of a text that is not JSON: JSONDecodeError.
JError == [t |-> "error", v |-> <<>>]

\* An Optional[str]
JOptional(s) == IF s = None THEN JNull ELSE JStr(s)

\* Variant: the category is left out of the dictionary.
to_dict_without_category(self) ==
    << <<<<"n","a","m","e">>, JStr(self.name)>>,
       <<<<"d","e","s","c","r","i","p","t","i","o","n">>, JStr(self.description)>>,
       <<<<"p","a","p","e","r","_","u","r","l">>, JOptional(self.paper_url)>>,
       <<<<"a","c","c","e","s","s","_","u","r","l">>, JOptional(self.access_url)>>,
       <<<<"d","a","t","a","_","u","r","l">>, JOptional(self.data_url)>>,
       <<<<"i","n","f","o","r","m","a","t","i","o","n","_","u","r","l">>, JOptional(self.information_url)>>,
       <<<<"o","v","e","r","v","i","e","w","_","u","r","l">>, JOptional(self.overview_url)>>,
       <<<<"r","e","q","u","i","r","e","s","_","r","e","g","i","s","t","r","a","t","i","o","n">>, JBool(self.requires_registration)>> >>

\* MedicalDataset.to_dict: the items of the dictionary, raw_text left out.
to_dict(self) ==
    << <<<<"n","a","m","e">>, JStr(self.name)>>,
       <<<<"c","a","t","e","g","o","r","y">>, JStr(self.category)>>,
       <<<<"d","e","s","c","r","i","p","t","i","o","n">>, JStr(self.description)>>,
       <<<<"p","a","p","e","r","_","u","r","l">>, JOptional(self.paper_url)>>,
       <<<<"a","c","c","e","s","s","_","u","r","l">>, JOptional(self.access_url)>>,
       <<<<"d","a","t","a","_","u","r","l">>, JOptional(self.data_url)>>,
       <<<<"i","n","f","o","r","m","a","t","i","o","n","_","u","r","l">>, JOptional(self.information_url)>>,
       <<<<"o","v","e","r","v","i","e","w","_","u","r","l">>, JOptional(self.overview_url)>>,
       <<<<"r","e","q","u","i","r","e","s","_","r","e","g","i","s","t","r","a","t","i","o","n">>, JBool(self.requires_registration)>> >>

\* "serializable_data" of export_datasets_to_json: every MedicalDataset has to_dict.
serializable_data(datasets_) == [i \in 1..Len(datasets_) |-> JDict(to_dict(datasets_[i]))]

\* The escape json writes for a character inside a string (ensure_ascii=False).
json_escape(c) ==
    IF c = "\"" THEN <<"\\", "\"">>
    ELSE IF c = "\\" THEN <<"\\", "\\">>
    ELSE IF c = "\n" THEN <<"\\", "n">>
    ELSE IF c = "\r" THEN <<"\\", "r">>
    ELSE IF c = "\t" THEN <<"\\", "t">>
    ELSE IF c = "\f" THEN <<"\\", "f">>
    ELSE <<c>>

\* The characters json_escape changes.
JsonEscaped == {"\"", "\\", "\n", "\r", "\t", "\f"}

RECURSIVE json_escaped(_)
json_escaped(chars) ==
    LET n == skip_until(chars, 1, JsonEscaped)
    IN  IF n > Len(chars) THEN chars
        ELSE SubSeq(chars, 1, n - 1) \o json_escape(chars[n])
                 \o json_escaped(SubSeq(chars, n + 1, Len(chars)))

json_string(chars) == <<"\"">> \o json_escaped(chars) \o <<"\"">>

\* str(n) for n >= 0
RECURSIVE json_int(_)
json_int(n) ==
    LET digit == <<"0","1","2","3","4","5","6","7","8","9">>[(n % 10) + 1]
    IN  IF n < 10 THEN <<digit>> ELSE json_int(n \div 10) \o <<digit>>

\* json.dumps(value, indent=indent, ensure_ascii=False) of a value nested
\* `level` deep: one item per line inside a non-empty list or dict.
RECURSIVE json_dumps(_, _, _)
json_dumps(value, indent, level) ==
    LET newline(l) == <<"\n">> \o [i \in 1..(indent * l) |-> " "]
        item(i) ==
            IF value.t = "dict"
            THEN json_string(value.v[i][1]) \o <<":", " ">>
                     \o json_dumps(value.v[i][2], indent, level + 1)
            ELSE json_dumps(value.v[i], indent, level + 1)
        items == join(<<",">> \o newline(level + 1), [i \in 1..Len(value.v) |-> item(i)])
        open == IF value.t = "dict" THEN "{" ELSE "["
        close == IF value.t = "dict" THEN "}" ELSE "]"
    IN  IF value.t = "str" THEN json_string(value.v)
        ELSE IF value.t = "null" THEN <<"n","u","l","l">>
        ELSE IF value.t = "bool"
        THEN IF value.v THEN <<"t","r","u","e">> ELSE <<"f","a","l","s","e">>
        ELSE IF value.t = "int" THEN json_int(value.v)
        ELSE IF value.v = <<>> THEN <<open, close>>
        ELSE <<open>> \o newline(level + 1) \o items \o newline(level) \o <<close>>

\* The categories of a record list, each once, in first-seen order.
distinct_categories(datasets_) ==
    LET counts == category_counts(<<>>, datasets_)
    IN  [i \in 1..Len(counts) |-> counts[i][1]]

\* The object the export writes: the manifest (category list, total count)
\* and the record dictionaries.
json_document(datasets_) ==
    LET categories == distinct_categories(datasets_)
    IN  JDict(<< <<<<"c","a","t","e","g","o","r","i","e","s">>,
                   JList([i \in 1..Len(categories) |-> JStr(categories[i])])>>,
                 <<<<"t","o","t","a","l","_","d","a","t","a","s","e","t","s">>, JInt(Len(datasets_))>>,
                 <<<<"d","a","t","a","s","e","t","s">>, JList(serializable_data(datasets_))>> >>)

\* The text of the file after export_datasets_to_json(datasets, path, indent).
export_datasets_to_json(datasets_, indent) == json_dumps(json_document(datasets_), indent, 0)

\* json.loads, one function per production of the grammar; each returns the
\* value read and the position after it, JError for a text that is not JSON.
JsonWhitespace == {" ", "\t", "\n", "\r"}

\* The character an escape letter stands for, "" for a letter that is none
\* (\b and \uXXXX are never written for the characters of these documents).
json_unescape(e) ==
    IF e \in {"\"", "\\", "/"} THEN e
    ELSE IF e = "n" THEN "\n"
    ELSE IF e = "r" THEN "\r"
    ELSE IF e = "t" THEN "\t"
    ELSE IF e = "f" THEN "\f"
    ELSE ""

\* The rest of a string whose opening quote is before position p.
RECURSIVE json_chars(_, _, _)
json_chars(text, p0, acc0) ==
    LET p == skip_until(text, p0, JsonEscaped)
        acc == acc0 \o SubSeq(text, p0, p - 1)
    IN  IF p > Len(text) \/ text[p] \in {"\n", "\r", "\t", "\f"} THEN [v |-> JError, p |-> p]
        ELSE IF text[p] = "\"" THEN [v |-> JStr(acc), p |-> p + 1]
        ELSE IF p + 1 > Len(text) \/ json_unescape(text[p + 1]) = ""
        THEN [v |-> JError, p |-> p]
        ELSE json_chars(text, p + 2, Append(acc, json_unescape(text[p + 1])))

\* int(digits)
RECURSIVE json_digits(_)
json_digits(digits) ==
    IF digits = <<>> THEN 0
    ELSE 10 * json_digits(SubSeq(digits, 1, Len(digits) - 1))
            + (CHOOSE n \in 0..9 : json_int(n) = <<digits[Len(digits)]>>)

RECURSIVE json_value(_, _)
RECURSIVE json_items(_, _, _)
RECURSIVE json_members(_, _, _)

\* The items of a list after "[" or ",", up to "]".
json_items(text, p, acc) ==
    LET r == json_value(text, p)
        q == skip_while(text, r.p, JsonWhitespace)
    IN  IF r.v.t = "error" \/ q > Len(text) THEN [v |-> JError, p |-> q]
        ELSE IF text[q] = "," THEN json_items(text, q + 1, Append(acc, r.v))
        ELSE IF text[q] = "]" THEN [v |-> JList(Append(acc, r.v)), p |-> q + 1]
        ELSE [v |-> JError, p |-> q]

\* The items of a dict after "{" or ",", up to "}".
json_members(text, p, acc) ==
    LET k == skip_while(text, p, JsonWhitespace)
        key == IF k <= Len(text) /\ text[k] = "\"" THEN json_chars(text, k + 1, <<>>)
               ELSE [v |-> JError, p |-> k]
        colon == skip_while(text, key.p, JsonWhitespace)
        r == json_value(text, colon + 1)
        q == skip_while(text, r.p, JsonWhitespace)
    IN  IF key.v.t = "error" \/ colon > Len(text) THEN [v |-> JError, p |-> colon]
        ELSE IF text[colon] # ":" THEN [v |-> JError, p |-> colon]
        ELSE IF r.v.t = "error" \/ q > Len(text) THEN [v |-> JError, p |-> q]
        ELSE IF text[q] = ","
        THEN json_members(text, q + 1, Append(acc, <<key.v.v, r.v>>))
        ELSE IF text[q] = "}"
        THEN [v |-> JDict(Append(acc, <<key.v.v, r.v>>)), p |-> q + 1]
        ELSE [v |-> JError, p |-> q]

json_value(text, p0) ==
    LET p == skip_while(text, p0, JsonWhitespace)
        inside == skip_while(text, p + 1, JsonWhitespace)
        number_end == skip_while(text, p, Digits)
    IN  IF p > Len(text) THEN [v |-> JError, p |-> p]
        ELSE IF text[p] = "\"" THEN json_chars(text, p + 1, <<>>)
        ELSE IF text[p] = "["
        THEN IF inside <= Len(text) /\ text[inside] = "]"
             THEN [v |-> JList(<<>>), p |-> inside + 1]
             ELSE json_items(text, inside, <<>>)
        ELSE IF text[p] = "{"
        THEN IF inside <= Len(text) /\ text[inside] = "}"
             THEN [v |-> JDict(<<>>), p |-> inside + 1]
             ELSE json_members(text, inside, <<>>)
        ELSE IF startswith_at(text, p, <<"n","u","l","l">>) THEN [v |-> JNull, p |-> p + 4]
        ELSE IF startswith_at(text, p, <<"t","r","u","e">>) THEN [v |-> JBool(TRUE), p |-> p + 4]
        ELSE IF startswith_at(text, p, <<"f","a","l","s","e">>)
        THEN [v |-> JBool(FALSE), p |-> p + 5]
        ELSE IF number_end > p
        THEN [v |-> JInt(json_digits(SubSeq(text, p, number_end - 1))), p |-> number_end]
        ELSE [v |-> JError, p |-> p]

\* json.loads(text): the value, JError when the text is not one JSON value.
json_loads(text) ==
    LET r == json_value(text, 1)
    IN  IF r.v.t = "error" \/ skip_while(text, r.p, JsonWhitespace) <= Len(text)
        THEN JError
        ELSE r.v

\* tests.load_json_datasets: json.load of the file.
load_json_datasets(text) ==
    LET loaded == json_loads(text)
    IN  IF loaded.t = "error" THEN Raised("load_json_datasets", <<>>, "JSONDecodeError")
        ELSE Returned("load_json_datasets", <<>>, loaded)

\* ------------------------------------------------------------------------
\* Documents: the lines a README is made of
\* ------------------------------------------------------------------------

\* '## 1. Imaging'
H_Imaging == <<"#","#"," ","1","."," ","I","m","a","g","i","n","g">>

\* ' ## 2.  EHR'
H_EHR == <<" ","#","#"," ","2","."," "," ","E","H","R">>

\* '__Alpha Set__'
T_Alpha == <<"_","_","A","l","p","h","a"," ","S","e","t","_","_">>

\* '__Beta Set__'
T_Beta == <<"_","_","B","e","t","a"," ","S","e","t","_","_">>

\* '__ab__'
T_Two == <<"_","_","a","b","_","_">>

\* '__abc__'
T_Three == <<"_","_","a","b","c","_","_">>

\* '__': a title line with nothing between its delimiters
T_Bare == <<"_","_">>

\* '__ __'
T_Blank == <<"_","_"," ","_","_">>

\* 'A chest scan corpus. Requires registration.'
L_Prose == <<"A"," ","c","h","e","s","t"," ","s","c","a","n"," ","c","o","r","p","u","s","."," ","R","e","q","u","i","r","e","s"," ","r","e","g","i","s","t","r","a","t","i","o","n",".">>

\* 'Free *CT* scans.'
L_Free == <<"F","r","e","e"," ","*","C","T","*"," ","s","c","a","n","s",".">>

\* 'Registration required for download'
L_RegRequired == <<"R","e","g","i","s","t","r","a","t","i","o","n"," ","r","e","q","u","i","r","e","d"," ","f","o","r"," ","d","o","w","n","l","o","a","d">>

\* 'Sign up required.'
L_SignUp == <<"S","i","g","n"," ","u","p"," ","r","e","q","u","i","r","e","d",".">>

\* 'ACCOUNT REQUIRED'
L_Account == <<"A","C","C","O","U","N","T"," ","R","E","Q","U","I","R","E","D">>

\* 'Paper: https://x.org/a'
L_Paper == <<"P","a","p","e","r",":"," ","h","t","t","p","s",":","/","/","x",".","o","r","g","/","a">>

\* 'Access: https://y.org/b'
L_Access == <<"A","c","c","e","s","s",":"," ","h","t","t","p","s",":","/","/","y",".","o","r","g","/","b">>

\* 'Data: (https://d.org/1) mirror http://m.org/2'
L_Data == <<"D","a","t","a",":"," ","(","h","t","t","p","s",":","/","/","d",".","o","r","g","/","1",")"," ","m","i","r","r","o","r"," ","h","t","t","p",":","/","/","m",".","o","r","g","/","2">>

\* 'Information: https://i.org/i'
L_Information == <<"I","n","f","o","r","m","a","t","i","o","n",":"," ","h","t","t","p","s",":","/","/","i",".","o","r","g","/","i">>

\* 'Overview: https://o.org/o'
L_Overview == <<"O","v","e","r","v","i","e","w",":"," ","h","t","t","p","s",":","/","/","o",".","o","r","g","/","o">>

\* 'Sixty characters of plain words that fill a line up to here.': 60 characters
L_Sixty ==
    <<"S","i","x","t","y"," ","c","h","a","r","a","c","t","e","r","s"," ","o","f"," ",
      "p","l","a","i","n"," ","w","o","r","d","s"," ","t","h","a","t"," ","f","i","l",
      "l"," ","a"," ","l","i","n","e"," ","u","p"," ","t","o"," ","h","e","r","e",".">>

\* 'https://example.org/' and 79 times 'a': one word of 99 characters
L_LongWord == <<"h","t","t","p","s",":","/","/","e","x","a","m","p","l","e",".","o","r","g","/">> \o [i \in 1..79 |-> "a"]

\* 'Forty characters  with a gap inside it..': 40 characters, two spaces after "characters"
L_Gaps ==
    <<"F","o","r","t","y"," ","c","h","a","r","a","c","t","e","r","s"," "," ","w","i",
      "t","h"," ","a"," ","g","a","p"," ","i","n","s","i","d","e"," ","i","t",".",".">>

\* 'Thirty-nine characters in this line ok.': 39 characters
L_ThirtyNine ==
    <<"T","h","i","r","t","y","-","n","i","n","e"," ","c","h","a","r","a","c","t","e",
      "r","s"," ","i","n"," ","t","h","i","s"," ","l","i","n","e"," ","o","k",".">>

\* 'Forty characters in this line, no gaps..': 40 characters
L_Forty ==
    <<"F","o","r","t","y"," ","c","h","a","r","a","c","t","e","r","s"," ","i","n"," ",
      "t","h","i","s"," ","l","i","n","e",","," ","n","o"," ","g","a","p","s",".",".">>

\* '## 3. Scans<TAB>X-ray'
H_Tabbed == <<"#","#"," ","3","."," ","S","c","a","n","s","\t","X","-","r","a","y">>

\* '__The "Gold" Set\1__'
T_Quoted == <<"_","_","T","h","e"," ","\"","G","o","l","d","\""," ","S","e","t","\\","1","_","_">>

\* '__Requires registration__. Data can only be used for research.'
L_Note ==
    <<"_","_","R","e","q","u","i","r","e","s"," ","r","e","g","i","s","t","r","a","t",
      "i","o","n","_","_","."," ","D","a","t","a"," ","c","a","n"," ","o","n","l","y",
      " ","b","e"," ","u","s","e","d"," ","f","o","r"," ","r","e","s","e","a","r","c",
      "h",".">>

\* 'Access: https://u.org/d (requires registration)'
L_AccessReg ==
    <<"A","c","c","e","s","s",":"," ","h","t","t","p","s",":","/","/","u",".","o","r",
      "g","/","d"," ","(","r","e","q","u","i","r","e","s"," ","r","e","g","i","s","t",
      "r","a","t","i","o","n",")">>

\* 'This set REQUIRES Registration first.'
L_ProseReg ==
    <<"T","h","i","s"," ","s","e","t"," ","R","E","Q","U","I","R","E","S"," ","R","e",
      "g","i","s","t","r","a","t","i","o","n"," ","f","i","r","s","t",".">>

\* 'No registration needed.'
L_NoReg ==
    <<"N","o"," ","r","e","g","i","s","t","r","a","t","i","o","n"," ","n","e","e","d",
      "e","d",".">>

\* 'Paper: https://x.org/b'
L_Paper2 ==
    <<"P","a","p","e","r",":"," ","h","t","t","p","s",":","/","/","x",".","o","r","g",
      "/","b">>

\* 'Paper: None'
L_PaperNone ==
    <<"P","a","p","e","r",":"," ","N","o","n","e">>

\* '***'
L_Separator == <<"*","*","*">>

\* ''
L_Blank == <<>>

\* '  \t'
L_Spaces == <<" "," ","\t">>

\* 'chest'
Q_Chest == <<"c","h","e","s","t">>

\* 'ALPHA'
Q_Alpha == <<"A","L","P","H","A">>

\* 'Set A': the end of a name, a space and the start of a description
Q_Span == <<"S","e","t"," ","A">>

\* 'zzz'
Q_Miss == <<"z","z","z">>

\* 'set'
Q_Set == <<"s","e","t">>

\* 'beta SET'
Q_BetaSet == <<"b","e","t","a"," ","S","E","T">>

\* 'Imaging'
C_Imaging == <<"I","m","a","g","i","n","g">>

\* 'EHR'
C_EHR == <<"E","H","R">>

\* Longest document enumerated, in lines.
MaxLines == 4

\* The lines that decide a document's structure.
StructLines == {H_Imaging, H_EHR, T_Alpha, T_Beta, L_Prose, L_Separator, L_Blank}

\* The lines of a record's body, and the titles of a record.
BodyLines ==
    {L_Prose, L_Free, L_RegRequired, L_SignUp, L_Account, L_Paper, L_Access, L_Data,
     L_Information, L_Overview}

\* Titles of two and of three characters.
ShortTitles == {T_Two, T_Three}

SeqsUpTo(S, n) == UNION {[1..k -> S] : k \in 0..n}

\* Every document of up to MaxLines structural lines.
StructDocs == SeqsUpTo(StructLines, MaxLines) \ {<<>>}

\* One record under one category, with every body of up to MaxLines - 2 lines.
RecordDocs == {<<H_Imaging, T_Alpha>> \o b : b \in SeqsUpTo(BodyLines, MaxLines - 2)}

\* One record with a short title, alone or followed by a full record.
ShortTitleDocs ==
    {<<H_Imaging, ttl>> \o b : ttl \in ShortTitles,
                               b \in SeqsUpTo({L_Prose, T_Alpha}, MaxLines - 2)}

\* One record whose title holds no text.
BareTitleDocs ==
    {<<H_Imaging, ttl>> \o b : ttl \in {T_Bare, T_Blank},
                               b \in SeqsUpTo({L_Prose}, MaxLines - 2)}

\* The document of the specification's scenario.
ExampleDoc ==
    <<H_Imaging, L_Blank, T_Alpha, L_Blank, L_Prose, L_Blank, L_Paper, L_Blank,
      L_Separator, L_Blank, T_Beta, L_Blank, L_Access>>

\* Two categories, the first one resumed after the second.
InterleavedDoc == <<H_Imaging, T_Alpha, H_EHR, T_Beta, H_Imaging, T_Beta>>

Docs ==
    StructDocs \cup RecordDocs \cup ShortTitleDocs \cup BareTitleDocs
        \cup {ExampleDoc, InterleavedDoc}

\* Longest document the queries are run on, the scenario apart.
MaxQueryLines == 4

\* The lines of the documents the queries are run on.
QueryLines == {H_Imaging, H_EHR, T_Alpha, T_Beta, L_Prose}

\* The category seen first has fewer records than the one seen second.
CountOrderDoc == <<H_EHR, T_Alpha, H_Imaging, T_Alpha, T_Beta>>

QueryDocs ==
    (SeqsUpTo(QueryLines, MaxQueryLines) \ {<<>>})
        \cup {ExampleDoc, InterleavedDoc, CountOrderDoc}

\* The arguments the queries are called with.
Queries == {Q_Chest, Q_Alpha, Q_Span, Q_Miss, <<>>}

Names == {Q_Alpha, Q_Set, Q_BetaSet, Q_Miss, <<>>}

Categories == {C_Imaging, C_EHR, lower(C_Imaging)}

\* ------------------------------------------------------------------------
\* The browser as a state machine
\* ------------------------------------------------------------------------

VARIABLES
    readme,                 \* the lines of the file at readme_path
    pc,                     \* "init": constructed; "loop": inside parse_readme; "done"
    idx,                    \* the line the for loop of parse_readme is at
    current_category,       \* locals of parse_readme
    current_dataset_lines,
    in_dataset,
    datasets,               \* self.datasets
    result,                 \* the last completed call and what it returned or raised
    sessions,               \* how many browsers were constructed on the file so far
    kept_datasets,          \* the record list the caller kept from the browser before
    json_file,              \* the text of the export file, None before it is written
    parse_calls             \* how many times parse_readme was called on this browser

vars ==
    <<readme, pc, idx, current_category, current_dataset_lines, in_dataset, datasets, result,
      sessions, kept_datasets, json_file, parse_calls>>

locals == <<current_category, current_dataset_lines, in_dataset>>

\* What the caller holds outside the browser.
caller == <<sessions, kept_datasets, json_file>>

\* What the steps of the loop and the queries leave as it is.
session == <<caller, parse_calls>>

\* Variant: a new browser starts with the records of the one before it.
datasets_at_init_shared(previous) == previous

\* "self.datasets: List[MedicalDataset] = []": every browser starts with a
\* list of its own, whatever the browsers before it hold.
datasets_at_init(previous) == <<>>

\* The locals and self.datasets as the record the loop operators work on.
Loc ==
    [current_category |-> current_category,
     current_dataset_lines |-> current_dataset_lines,
     in_dataset |-> in_dataset,
     datasets |-> datasets]

SetLoc(loc) ==
    /\ current_category' = loc.current_category
    /\ current_dataset_lines' = loc.current_dataset_lines
    /\ in_dataset' = loc.in_dataset
    /\ datasets' = loc.datasets

\* MedicalDataBrowser.__init__ on an existing file.
InitWith(docs) ==
    /\ readme \in docs
    /\ pc = "init"
    /\ idx = 0
    /\ current_category = <<>>
    /\ current_dataset_lines = <<>>
    /\ in_dataset = FALSE
    /\ datasets = datasets_at_init(<<>>)
    /\ result = Returned("__init__", <<>>, None)
    /\ sessions = 1
    /\ kept_datasets = <<>>
    /\ json_file = None
    /\ parse_calls = 0

Init == InitWith(Docs)

\* parse_readme up to the loop: the file is read and split, the locals are set.
ParseReadme ==
    /\ pc = "init"
    /\ pc' = "loop"
    /\ idx' = 1
    /\ SetLoc(initial_locals(datasets))
    /\ result' = Returned("", <<>>, None)
    /\ parse_calls' = parse_calls + 1
    /\ UNCHANGED <<readme, caller>>

AtLine == pc = "loop" /\ idx <= Len(readme)

NextLine == idx' = idx + 1 /\ UNCHANGED <<readme, pc, result, session>>

CategoryHeaderLine ==
    /\ AtLine
    /\ is_category_header(readme[idx])
    /\ SetLoc(on_category_header(Loc, readme[idx]))
    /\ NextLine

SeparatorLine ==
    /\ AtLine
    /\ ~is_category_header(readme[idx])
    /\ is_separator(readme[idx])
    /\ SetLoc(on_separator(Loc))
    /\ NextLine

DatasetStartLine ==
    /\ AtLine
    /\ ~is_category_header(readme[idx])
    /\ ~is_separator(readme[idx])
    /\ is_dataset_start(readme[idx], current_category)
    /\ SetLoc(on_dataset_start(Loc, readme[idx]))
    /\ NextLine

OtherLine ==
    /\ AtLine
    /\ ~is_category_header(readme[idx])
    /\ ~is_separator(readme[idx])
    /\ ~is_dataset_start(readme[idx], current_category)
    /\ SetLoc(on_other_line(Loc, readme[idx]))
    /\ NextLine

\* Variant: parse_readme returns at the end of the loop, the buffer unsaved.
EndOfDocument_dropping_pending ==
    /\ pc = "loop"
    /\ idx > Len(readme)
    /\ datasets' = datasets
    /\ pc' = "done"
    /\ idx' = 0
    /\ current_category' = <<>>
    /\ current_dataset_lines' = <<>>
    /\ in_dataset' = FALSE
    /\ result' = Returned("parse_readme", <<>>, None)
    /\ UNCHANGED <<readme, session>>

\* After the loop: the last dataset is handled and parse_readme returns.
EndOfDocument ==
    /\ pc = "loop"
    /\ idx > Len(readme)
    /\ datasets' = save_previous(Loc)
    /\ pc' = "done"
    /\ idx' = 0
    /\ current_category' = <<>>
    /\ current_dataset_lines' = <<>>
    /\ in_dataset' = FALSE
    /\ result' = Returned("parse_readme", <<>>, None)
    /\ UNCHANGED <<readme, session>>

\* The queries run between calls of parse_readme, never inside one.
Idle == pc \in {"init", "done"}

\* Variant: the search keeps its results in self.datasets.
SearchDatasets_narrowing(query, case_sensitive) ==
    /\ Idle
    /\ result' = Returned("search_datasets", <<query, case_sensitive>>,
                          search_datasets(datasets, query, case_sensitive))
    /\ datasets' = search_datasets(datasets, query, case_sensitive)
    /\ UNCHANGED <<readme, pc, idx, locals, session>>

SearchDatasets(query, case_sensitive) ==
    /\ Idle
    /\ result' = Returned("search_datasets", <<query, case_sensitive>>,
                          search_datasets(datasets, query, case_sensitive))
    /\ UNCHANGED <<readme, pc, idx, locals, datasets, session>>

BrowseByCategory(category) ==
    /\ Idle
    /\ result' = Returned("browse_by_category", <<category>>,
                          browse_by_category(datasets, category))
    /\ UNCHANGED <<readme, pc, idx, locals, datasets, session>>

ListCategories ==
    /\ Idle
    /\ result' = Returned("list_categories", <<>>, list_categories(datasets))
    /\ UNCHANGED <<readme, pc, idx, locals, datasets, session>>

GetDatasetByName(name, exact_match) ==
    /\ Idle
    /\ result' = Returned("get_dataset_by_name", <<name, exact_match>>,
                          get_dataset_by_name(datasets, name, exact_match))
    /\ UNCHANGED <<readme, pc, idx, locals, datasets, session>>

\* parse_readme alone: the parser's claims are checked under Spec.
Next ==
    \/ ParseReadme
    \/ CategoryHeaderLine
    \/ SeparatorLine
    \/ DatasetStartLine
    \/ OtherLine
    \/ EndOfDocument

Spec == Init /\ [][Next]_vars

\* The parser and the queries, over the shorter documents of QueryDocs.
InitQueries == InitWith(QueryDocs)

NextQueries ==
    \/ Next
    \/ \E q \in Queries, cs \in BOOLEAN : SearchDatasets(q, cs)
    \/ \E c \in Categories : BrowseByCategory(c)
    \/ ListCategories
    \/ \E n \in Names, exact_match \in BOOLEAN : GetDatasetByName(n, exact_match)

SpecQueries == InitQueries /\ [][NextQueries]_vars

\* Longest body of a record the utilities are run on, in lines.
MaxBodyLines == 2

\* Body lines that make descriptions around the 100 characters of
\* format_dataset_output.
UtilBodyLines == {L_Sixty, L_LongWord, L_Gaps, L_ThirtyNine, L_Forty, L_Prose, L_Paper}

\* Two records whose name and category need escaping in JSON.
QuotedDoc == <<H_Tabbed, T_Quoted, L_Prose, T_Alpha>>

UtilDocs ==
    {<<H_Imaging, T_Alpha>> \o b : b \in SeqsUpTo(UtilBodyLines, MaxBodyLines)}
        \cup {<<H_Imaging>>, ExampleDoc, InterleavedDoc, CountOrderDoc, QuotedDoc}

\* The criteria dicts filter_datasets is called with, as their items().
CriteriaPool ==
    << <<>>,
       <<Criterion("category", "str", lower(C_Imaging))>>,
       <<Criterion("requires_registration", "bool", FALSE)>>,
       <<Criterion("paper_url", "callable", "is_not_none")>>,
       <<Criterion("description", "callable", "longer_than_50")>>,
       <<Criterion("license", "str", <<"M","I","T">>)>>,
       <<Criterion("paper_url", "str", <<"X",".","O","R","G">>)>>,
       <<Criterion("paper_url", "none", None)>>,
       <<Criterion("category", "str", C_Imaging),
         Criterion("requires_registration", "bool", FALSE)>>,
       <<Criterion("license", "str", <<"M","I","T">>),
         Criterion("paper_url", "callable", "is_not_none")>> >>

\* The utilities are called on browser.datasets after parse_readme, as the
\* examples and the command line do.
FilterDatasets(criteria, match_all) ==
    /\ pc = "done"
    /\ result' = Returned("filter_datasets", <<criteria, match_all>>,
                          filter_datasets(datasets, criteria, match_all))
    /\ UNCHANGED <<readme, pc, idx, locals, datasets, session>>

CreateSummaryStatistics ==
    /\ pc = "done"
    /\ result' = create_summary_statistics(datasets)
    /\ UNCHANGED <<readme, pc, idx, locals, datasets, session>>

FormatDatasetOutput(k, detailed, include_urls) ==
    /\ pc = "done"
    /\ k \in 1..Len(datasets)
    /\ result' = Returned("format_dataset_output", <<k, detailed, include_urls>>,
                          format_dataset_output(datasets[k], detailed, include_urls, 2))
    /\ UNCHANGED <<readme, pc, idx, locals, datasets, session>>

ExportDatasetsToJson ==
    /\ pc = "done"
    /\ json_file' = export_datasets_to_json(datasets, 2)
    /\ result' = Returned("export_datasets_to_json", <<>>, None)
    /\ UNCHANGED <<readme, pc, idx, locals, datasets, sessions, kept_datasets, parse_calls>>

LoadJsonDatasets ==
    /\ pc = "done"
    /\ json_file # None
    /\ result' = load_json_datasets(json_file)
    /\ UNCHANGED <<readme, pc, idx, locals, datasets, session>>

InitUtils == InitWith(UtilDocs)

NextUtils ==
    \/ Next
    \/ \E i \in 1..Len(CriteriaPool), match_all \in BOOLEAN :
          FilterDatasets(CriteriaPool[i], match_all)
    \/ CreateSummaryStatistics
    \/ \E k \in 1..Len(datasets), detailed \in BOOLEAN, include_urls \in BOOLEAN :
          FormatDatasetOutput(k, detailed, include_urls)
    \/ ExportDatasetsToJson
    \/ LoadJsonDatasets

SpecUtils == InitUtils /\ [][NextUtils]_vars

\* Longest body of the record of a section document, in lines.
MaxSectionLines == 3

\* Body lines with a registration phrase, with a second delimiter pair, and
\* with a label that occurs more than once.
SectionLines ==
    {L_Prose, L_Note, L_AccessReg, L_ProseReg, L_NoReg, L_Paper, L_Paper2, L_PaperNone}

\* Two records of these lines with "***" between them.
SeparatedDoc ==
    <<H_Imaging, T_Alpha, L_Paper, L_ProseReg, L_Separator, T_Beta, L_Paper2, L_PaperNone>>

\* One record under one category, with every body of up to MaxSectionLines
\* of these lines, and the two records of SeparatedDoc.
SectionDocs ==
    {<<H_Imaging, T_Alpha>> \o b : b \in SeqsUpTo(SectionLines, MaxSectionLines)}
        \cup {SeparatedDoc}

InitSections == InitWith(SectionDocs)

SpecSections == InitSections /\ [][Next]_vars

\* ------------------------------------------------------------------------
\* medical_data/__main__.py: the command handlers
\* ------------------------------------------------------------------------

\* "try: ... except Exception: return 1" around a handler's body, the body
\* given as what it returned or raised.
try_except(body) == IF body.exc # "" THEN 1 ELSE body.ret

\* Path.write_text and the open() of the export: the text lands in the file,
\* or IOError is raised for a path that cannot be written.
write_file(call, text, writable) ==
    IF writable THEN Returned(call, <<text>>, 0) ELSE Raised(call, <<text>>, "IOError")

handle_search(datasets_, args) ==
    LET results == search_datasets(datasets_, args.query, args.case_sensitive)
        output == [i \in 1..Len(results) |->
                      format_dataset_output(results[i], args.detailed, ~args.no_urls, 2)]
    IN  try_except(IF results = <<>>
                   THEN Returned("handle_search", <<>>, 0)
                   ELSE Returned("handle_search", output, 0))

handle_browse(datasets_, args) ==
    LET results == browse_by_category(datasets_, args.category)
        output == [i \in 1..Len(results) |->
                      format_dataset_output(results[i], args.detailed, ~args.no_urls, 2)]
    IN  try_except(IF results = <<>>
                   THEN Returned("handle_browse", <<>>, 0)
                   ELSE Returned("handle_browse", output, 0))

handle_list_categories(datasets_, args) ==
    try_except(Returned("handle_list_categories", list_categories(datasets_), 0))

\* MedicalDataBrowser.get_statistics: the counts handle_stats prints.
get_statistics(datasets_) ==
    LET counts == category_counts(<<>>, datasets_)
        count_of(test(_)) == Cardinality({k \in 1..Len(datasets_) : test(datasets_[k])})
        has_paper(d) == truthy(d.paper_url)
        has_access(d) == \E a \in OptionalFields \ {"paper_url"} : truthy(d[a])
        registered(d) == d.requires_registration
    IN  [total_datasets |-> Len(datasets_),
         categories |-> Len(counts),
         datasets_with_papers |-> count_of(has_paper),
         datasets_with_access |-> count_of(has_access),
         datasets_requiring_registration |-> count_of(registered),
         category_distribution |-> counts]

\* handle_stats: the statistics are printed, or written to args.output when
\* the format is json and an output path is given.
handle_stats(datasets_, args, writable) ==
    LET stats == get_statistics(datasets_)
    IN  try_except(IF args.format = "json" /\ truthy(args.output)
                   THEN write_file("handle_stats", stats, writable)
                   ELSE Returned("handle_stats", stats, 0))

\* Variant: a dataset that is not found is reported with status 0.
handle_get_reporting_success(datasets_, args) ==
    LET dataset == get_dataset_by_name(datasets_, args.name, args.exact)
    IN  try_except(Returned("handle_get", <<>>, 0))

handle_get(datasets_, args) ==
    LET dataset == get_dataset_by_name(datasets_, args.name, args.exact)
    IN  try_except(IF dataset = NotFound
                   THEN Returned("handle_get", <<>>, 1)
                   ELSE IF args.format = "json"
                   THEN Returned("handle_get", json_dumps(JDict(to_dict(dataset)), 2, 0), 0)
                   ELSE Returned("handle_get", format_dataset_output(dataset, TRUE, TRUE, 2), 0))

\* The datasets handle_export selects: a category's, or all of them.
exported_datasets(datasets_, args) ==
    IF truthy(args.category) THEN browse_by_category(datasets_, args.category)
    ELSE datasets_

handle_export(datasets_, args, writable) ==
    LET selected == exported_datasets(datasets_, args)
    IN  try_except(IF truthy(args.category) /\ selected = <<>>
                   THEN Returned("handle_export", <<>>, 1)
                   ELSE write_file("handle_export",
                                   export_datasets_to_json(selected, args.indent), writable))

\* The documents the commands are run on.
CliDocs ==
    {<<H_Imaging>>, <<H_Imaging, T_Alpha>>, <<H_Imaging, T_Alpha, L_Prose, L_RegRequired>>,
     ExampleDoc, InterleavedDoc, CountOrderDoc, QuotedDoc}

\* Every handler is called by main on a browser whose parse_readme returned.
HandleSearch(args) ==
    /\ pc = "done"
    /\ result' = Returned("handle_search", args, handle_search(datasets, args))
    /\ UNCHANGED <<readme, pc, idx, locals, datasets, session>>

HandleBrowse(args) ==
    /\ pc = "done"
    /\ result' = Returned("handle_browse", args, handle_browse(datasets, args))
    /\ UNCHANGED <<readme, pc, idx, locals, datasets, session>>

HandleListCategories(args) ==
    /\ pc = "done"
    /\ result' = Returned("handle_list_categories", args,
                          handle_list_categories(datasets, args))
    /\ UNCHANGED <<readme, pc, idx, locals, datasets, session>>

HandleStats(args, writable) ==
    /\ pc = "done"
    /\ result' = Returned("handle_stats", <<args, writable>>,
                          handle_stats(datasets, args, writable))
    /\ UNCHANGED <<readme, pc, idx, locals, datasets, session>>

HandleGet(args) ==
    /\ pc = "done"
    /\ result' = Returned("handle_get", args, handle_get(datasets, args))
    /\ UNCHANGED <<readme, pc, idx, locals, datasets, session>>

HandleExport(args, writable) ==
    LET status == handle_export(datasets, args, writable)
    IN  /\ pc = "done"
        /\ result' = Returned("handle_export", <<args, writable>>, status)
        /\ json_file' = IF status = 0
                        THEN export_datasets_to_json(exported_datasets(datasets, args),
                                                     args.indent)
                        ELSE json_file
        /\ UNCHANGED <<readme, pc, idx, locals, datasets, sessions, kept_datasets, parse_calls>>

InitCli == InitWith(CliDocs)

NextCli ==
    \/ Next
    \/ \E q \in Queries, cs \in BOOLEAN, detailed \in BOOLEAN :
          HandleSearch([query |-> q, case_sensitive |-> cs, detailed |-> detailed,
                        no_urls |-> FALSE])
    \/ \E c \in Categories, detailed \in BOOLEAN :
          HandleBrowse([category |-> c, detailed |-> detailed, no_urls |-> TRUE])
    \/ \E sort_by \in {"name", "count"} : HandleListCategories([sort_by |-> sort_by])
    \/ \E format \in {"text", "json"}, output \in {None, <<"s">>}, writable \in BOOLEAN :
          HandleStats([format |-> format, output |-> output], writable)
    \/ \E n \in Names, exact \in BOOLEAN, format \in {"text", "json"} :
          HandleGet([name |-> n, exact |-> exact, format |-> format])
    \/ \E c \in Categories \cup {None, <<>>}, writable \in BOOLEAN :
          HandleExport([category |-> c, indent |-> 2], writable)

SpecCli == InitCli /\ [][NextCli]_vars

\* The queries of the browser and the utilities, called in any order.
InitReadOnly == InitWith(CliDocs)

NextReadOnly ==
    \/ NextQueries
    \/ \E i \in 1..Len(CriteriaPool), match_all \in BOOLEAN :
          FilterDatasets(CriteriaPool[i], match_all)
    \/ CreateSummaryStatistics

SpecReadOnly == InitReadOnly /\ [][NextReadOnly]_vars

\* How many browsers are constructed on one file, one after the other.
MaxSessions == 2

\* The documents that are parsed by more than one browser.
SessionDocs == QueryDocs \cup RecordDocs

\* "browser = MedicalDataBrowser(path)" once more on the same file, as each
\* example does: the caller keeps the list of the browser before, the new
\* browser starts with a list of its own.
Construct ==
    /\ pc = "done"
    /\ sessions < MaxSessions
    /\ kept_datasets' = datasets
    /\ datasets' = datasets_at_init(datasets)
    /\ sessions' = sessions + 1
    /\ pc' = "init"
    /\ result' = Returned("__init__", <<>>, None)
    /\ parse_calls' = 0
    /\ UNCHANGED <<readme, idx, locals, json_file>>

InitSessions == InitWith(SessionDocs)

\* How many times parse_readme is called on one browser.
MaxParses == 2

\* parse_readme called again on a browser that has parsed its file: the
\* locals are set anew, self.datasets is what the calls before left.
ParseReadmeAgain ==
    /\ pc = "done"
    /\ parse_calls < MaxParses
    /\ pc' = "loop"
    /\ idx' = 1
    /\ SetLoc(initial_locals(datasets))
    /\ result' = Returned("", <<>>, None)
    /\ parse_calls' = parse_calls + 1
    /\ UNCHANGED <<readme, caller>>

ReparseDocs == RecordDocs \cup {ExampleDoc, InterleavedDoc, CountOrderDoc}

InitReparse == InitWith(ReparseDocs)

NextReparse ==
    \/ Next
    \/ ParseReadmeAgain

SpecReparse == InitReparse /\ [][NextReparse]_vars

NextSessions ==
    \/ Next
    \/ Construct

SpecSessions == InitSessions /\ [][NextSessions]_vars

\* ------------------------------------------------------------------------
\* What the documents say, read off the lines independently of the parser
\* ------------------------------------------------------------------------

\* 'Alpha Set'
N_Alpha == <<"A","l","p","h","a"," ","S","e","t">>

\* 'Beta Set'
N_Beta == <<"B","e","t","a"," ","S","e","t">>

\* 'ab'
N_Two == <<"a","b">>

\* 'abc'
N_Three == <<"a","b","c">>

\* 'https://x.org/a'
U_Paper == <<"h","t","t","p","s",":","/","/","x",".","o","r","g","/","a">>

\* 'https://y.org/b'
U_Access == <<"h","t","t","p","s",":","/","/","y",".","o","r","g","/","b">>

\* 'https://d.org/1'
U_Data == <<"h","t","t","p","s",":","/","/","d",".","o","r","g","/","1">>

\* 'https://i.org/i'
U_Information == <<"h","t","t","p","s",":","/","/","i",".","o","r","g","/","i">>

\* 'https://o.org/o'
U_Overview == <<"h","t","t","p","s",":","/","/","o",".","o","r","g","/","o">>

\* 'chest scan corpus'
W_ChestScanCorpus == <<"c","h","e","s","t"," ","s","c","a","n"," ","c","o","r","p","u","s">>

HeaderLines == {H_Imaging, H_EHR}

TitleLines == {T_Alpha, T_Beta, T_Two, T_Three, T_Bare, T_Blank}

BlankLines == {L_Blank, L_Spaces}

\* The trimmed title of a category header line.
HeaderTitle(line) == IF line = H_Imaging THEN C_Imaging ELSE C_EHR

\* The title of a record title line without its delimiters.
TitleName(line) ==
    IF line = T_Alpha THEN N_Alpha
    ELSE IF line = T_Beta THEN N_Beta
    ELSE IF line = T_Two THEN N_Two
    ELSE IF line = T_Three THEN N_Three
    ELSE IF line = T_Bare THEN <<"_","_">>
    ELSE <<" ">>

\* The members of a set of numbers, ascending.
RECURSIVE Ascending(_)
Ascending(S) == IF S = {} THEN <<>> ELSE <<Min(S)>> \o Ascending(S \ {Min(S)})

Insert(doc, p, line) == SubSeq(doc, 1, p - 1) \o <<line>> \o SubSeq(doc, p, Len(doc))

Remove(doc, p) == SubSeq(doc, 1, p - 1) \o SubSeq(doc, p + 1, Len(doc))

\* The positions of the category headers of a document.
HeaderPositions(doc) == {i \in 1..Len(doc) : doc[i] \in HeaderLines}

\* The positions of the title lines that follow a category header, in order.
TitlePositions(doc) ==
    Ascending({i \in 1..Len(doc) : doc[i] \in TitleLines
                                   /\ \E h \in HeaderPositions(doc) : h < i})

\* The category a line at position i is under: the title of the last header before it.
CategoryAt(doc, i) ==
    HeaderTitle(doc[Max({h \in HeaderPositions(doc) : h < i})])

\* The lines a record was built from.
RecordLines(d) == split_lines(d.raw_text)

\* parse_readme has returned.
Parsed == pc = "done"

\* ------------------------------------------------------------------------
\* The claims
\* ------------------------------------------------------------------------

\* C1: parsing the scenario document (header "## 1. Imaging"; "__Alpha Set__"
\* with the prose line and "Paper: https://x.org/a"; "***"; "__Beta Set__" with
\* "Access: https://y.org/b") yields exactly the records Alpha Set (Imaging,
\* paper_url, requires_registration, description containing "chest scan corpus")
\* and Beta Set (Imaging, access_url, no registration, empty description), in
\* this order; list_categories() then returns [(Imaging, 2)] and
\* search("chest") returns exactly [Alpha Set].
C1_Scenario ==
    (readme = ExampleDoc /\ Parsed) =>
        /\ Len(datasets) = 2
        /\ datasets[1].name = N_Alpha
        /\ datasets[1].category = C_Imaging
        /\ datasets[1].paper_url = U_Paper
        /\ datasets[1].requires_registration
        /\ contains(datasets[1].description, W_ChestScanCorpus)
        /\ datasets[2].name = N_Beta
        /\ datasets[2].category = C_Imaging
        /\ datasets[2].access_url = U_Access
        /\ ~datasets[2].requires_registration
        /\ datasets[2].description = <<>>
        /\ result.call = "list_categories" => result.ret = << <<C_Imaging, 2>> >>
        /\ (result.call = "search_datasets" /\ result.args = <<Q_Chest, FALSE>>)
              => result.ret = <<datasets[1]>>

C1_Witness ==
    /\ readme = ExampleDoc
    /\ Parsed
    /\ result.call = "search_datasets"
    /\ result.args = <<Q_Chest, FALSE>>
    /\ Len(result.ret) = 1
    /\ result.ret[1].name = N_Alpha

\* C2: every record emitted by parse_readme carries as its category the trimmed
\* title of the most recent category header before the record's title line; a
\* record still pending when a new header is read is saved under the previous
\* category.
C2_CategoryOfRecord ==
    Parsed =>
        LET ts == TitlePositions(readme)
        IN  /\ Len(datasets) = Len(ts)
            /\ \A k \in 1..Len(ts) : datasets[k].category = CategoryAt(readme, ts[k])

\* A record was pending under one category when the header of another was read.
C2_Witness ==
    /\ Parsed
    /\ Len(datasets) >= 1
    /\ \E i \in 2..(Len(readme) - 1) :
          /\ readme[i] \in TitleLines
          /\ readme[i - 1] \in HeaderLines
          /\ readme[i + 1] \in HeaderLines
          /\ readme[i + 1] # readme[i - 1]

\* C3: after one parse_readme, datasets lists the records in the order of their
\* title lines in the document, and browse_by_category(C) returns exactly the
\* records of category C in that same relative order.
C3_DocumentOrder ==
    Parsed =>
        LET ts == TitlePositions(readme)
            of_category(c) == Ascending({k \in 1..Len(ts) : CategoryAt(readme, ts[k]) = c})
        IN  /\ Len(datasets) = Len(ts)
            /\ \A k \in 1..Len(ts) :
                  /\ datasets[k].name = TitleName(readme[ts[k]])
                  /\ RecordLines(datasets[k])[1] = readme[ts[k]]
            /\ result.call = "browse_by_category" =>
                  LET ks == of_category(result.args[1])
                  IN  result.ret = [j \in 1..Len(ks) |-> datasets[ks[j]]]

\* browse_by_category returned two different records of one category while a
\* record of another category sits between them in the list.
C3_Witness ==
    /\ Parsed
    /\ result.call = "browse_by_category"
    /\ Len(result.ret) = 2
    /\ result.ret[1].name # result.ret[2].name
    /\ Len(datasets) = 3
    /\ datasets[2].category # result.args[1]

\* C4: a record title line always closes the pending record: deleting a "***"
\* line whose next non-blank line is a record title line leaves the record list
\* unchanged (same records, same fields, same order).
C4_SeparatorBeforeTitleIsRedundant ==
    Parsed =>
        \A p \in 1..Len(readme) :
            LET after == {j \in (p + 1)..Len(readme) : readme[j] \notin BlankLines}
            IN  (/\ readme[p] = L_Separator
                 /\ after # {}
                 /\ readme[Min(after)] \in TitleLines)
                    => parse_lines(<<>>, Remove(readme, p)) = datasets

\* The separator deleted stands between two records that are both emitted.
C4_Witness ==
    /\ Parsed
    /\ Len(datasets) = 2
    /\ \E p \in 2..(Len(readme) - 1) :
          /\ readme[p] = L_Separator
          /\ readme[p - 1] \in TitleLines
          /\ readme[p + 1] \in TitleLines

\* C5: blank lines are ignored: inserting or removing an empty or
\* whitespace-only line anywhere leaves the record list unchanged (raw_text
\* included), and no blank line is ever in a record's buffer.
C5_BlankLinesIgnored ==
    /\ \A i \in 1..Len(current_dataset_lines) : current_dataset_lines[i] \notin BlankLines
    /\ Parsed =>
          /\ \A p \in 1..(Len(readme) + 1) : \A b \in BlankLines :
                parse_lines(<<>>, Insert(readme, p, b)) = datasets
          /\ \A p \in 1..Len(readme) :
                (readme[p] \in BlankLines /\ Len(readme) > 1)
                    => parse_lines(<<>>, Remove(readme, p)) = datasets
          /\ \A k \in 1..Len(datasets) :
                LET lines == RecordLines(datasets[k])
                IN  \A i \in 1..Len(lines) : lines[i] \notin BlankLines

\* A blank line stands inside a record that was emitted with body lines.
C5_Witness ==
    /\ Parsed
    /\ \E p \in 2..(Len(readme) - 1) :
          /\ readme[p] \in BlankLines
          /\ readme[p - 1] \in TitleLines
          /\ readme[p + 1] = L_Prose
    /\ \E k \in 1..Len(datasets) : Len(RecordLines(datasets[k])) = 2

\* C6: a record title is honoured only while a category is active: no record
\* comes from a title line before the first category header, and no line before
\* the first header reaches any record (the lines before the first header have
\* no effect on the record list).
C6_NothingBeforeFirstHeader ==
    /\ current_category = <<>> => (current_dataset_lines = <<>> /\ ~in_dataset)
    /\ (pc = "loop" /\ current_category = <<>>) => datasets = <<>>
    /\ Parsed =>
          LET hs == HeaderPositions(readme)
          IN  IF hs = {} THEN datasets = <<>>
              ELSE /\ datasets = parse_lines(<<>>, SubSeq(readme, Min(hs), Len(readme)))
                   /\ Len(datasets) = Len(TitlePositions(readme))

\* Two title lines precede the first header and a record follows it.
C6_Witness ==
    /\ Parsed
    /\ Len(readme) >= 4
    /\ readme[1] \in TitleLines
    /\ readme[2] \in TitleLines
    /\ readme[3] \in HeaderLines
    /\ Len(datasets) = 1

\* C7: record finalization discards short titles: a pending record whose
\* stripped title has fewer than 3 characters is not added to the record list,
\* one whose stripped title has exactly 3 characters is added.
C7_ShortTitlesDiscarded ==
    Parsed =>
        LET kept == SelectSeq(TitlePositions(readme),
                              LAMBDA i : name_is_kept(TitleName(readme[i])))
        IN  /\ Len(datasets) = Len(kept)
            /\ \A k \in 1..Len(kept) : datasets[k].name = TitleName(readme[kept[k]])

\* C8: for each of the four registration phrases, matched case-insensitively, a
\* record with at least one accumulated line containing the phrase is emitted
\* with requires_registration = true.
C8_RegistrationPhrases ==
    Parsed =>
        \A k \in 1..Len(datasets) :
            LET lines == RecordLines(datasets[k])
            IN  (\E i \in 1..Len(lines) : check_registration_required(lines[i]))
                    => datasets[k].requires_registration

\* C9: overview fallback precedence: within one record an "overview:" line
\* assigns its first URL to information_url when information_url is not yet
\* set, and leaves it unchanged when an earlier "information:" line set it.
C9_OverviewFallback ==
    Parsed =>
        \A k \in 1..Len(datasets) :
            datasets[k].information_url
                = information_url_with_fallback(None, Tail(RecordLines(datasets[k])))

UrlFields == {"paper_url", "access_url", "data_url", "information_url", "overview_url"}

\* The label that sets a URL field in browser.py.
FieldLabel(f) ==
    IF f = "paper_url" THEN <<"p","a","p","e","r",":">>
    ELSE IF f = "access_url" THEN <<"a","c","c","e","s","s",":">>
    ELSE IF f = "data_url" THEN <<"d","a","t","a",":">>
    ELSE IF f = "information_url" THEN <<"i","n","f","o","r","m","a","t","i","o","n",":">>
    ELSE <<"o","v","e","r","v","i","e","w",":">>

Schemes == {<<"h","t","t","p",":","/","/">>, <<"h","t","t","p","s",":","/","/">>}

\* u begins with http:// or https:// and holds no whitespace and no ")".
WellFormedUrl(u) ==
    /\ \E scheme \in Schemes : startswith(u, scheme)
    /\ \A i \in 1..Len(u) : u[i] \notin Whitespace /\ u[i] # ")"

\* A URL begins at position p of line: a scheme and one more URL character.
UrlBeginsAt(line, p) ==
    \E scheme \in Schemes :
        /\ startswith_at(line, p, scheme)
        /\ p + Len(scheme) <= Len(line)
        /\ line[p + Len(scheme)] \notin Whitespace
        /\ line[p + Len(scheme)] # ")"

\* u is the first URL on the line: it stands where the leftmost URL begins and
\* runs to the next whitespace, ")" or the end of the line.
IsFirstUrlOf(u, line) ==
    \E p \in 1..Len(line) :
        /\ startswith_at(line, p, u)
        /\ UrlBeginsAt(line, p)
        /\ \A q \in 1..(p - 1) : ~UrlBeginsAt(line, q)
        /\ \A i \in 1..Len(u) : u[i] \notin Whitespace /\ u[i] # ")"
        /\ \/ p + Len(u) > Len(line)
           \/ line[p + Len(u)] \in Whitespace
           \/ line[p + Len(u)] = ")"

\* C10: every URL field of every emitted record is None or one string that
\* begins with http:// or https:// and contains no whitespace and no ")"; it
\* is the first URL of a line of the record that carries the field's label.
C10_UrlFields ==
    Parsed =>
        \A k \in 1..Len(datasets) : \A f \in UrlFields :
            LET u == datasets[k][f]
                lines == RecordLines(datasets[k])
            IN  \/ u = None
                \/ /\ WellFormedUrl(u)
                   /\ \E i \in 2..Len(lines) :
                         /\ startswith(lower(strip(lines[i])), FieldLabel(f))
                         /\ IsFirstUrlOf(u, lines[i])

\* A label line with two URLs, the first closed by ")", set the field.
C10_Witness ==
    /\ Parsed
    /\ \E k \in 1..Len(datasets) :
          /\ datasets[k].data_url = U_Data
          /\ \E i \in 2..Len(RecordLines(datasets[k])) : RecordLines(datasets[k])[i] = L_Data

\* C11: for every document, every record in datasets after parse_readme (and
\* at every point of the parse) has a non-empty name and a non-empty category.
C11_NameAndCategoryNonEmpty ==
    \A k \in 1..Len(datasets) :
        /\ Len(datasets[k].name) > 0
        /\ Len(datasets[k].category) > 0

\* A record was emitted from a title line with no text between its delimiters.
C11_Witness ==
    /\ Parsed
    /\ Len(readme) >= 2
    /\ readme[2] = T_Bare
    /\ Len(datasets) = 1
    /\ datasets[1].name = <<"_","_">>
    /\ datasets[1].category = C_Imaging

\* The fields of a record that the claims compare (raw_text apart).
ComparedFields ==
    {"name", "category", "description", "paper_url", "access_url", "data_url",
     "information_url", "overview_url", "requires_registration"}

RecordsAt(S) == LET ks == Ascending(S) IN [j \in 1..Len(ks) |-> datasets[ks[j]]]

\* s with its letters lower-cased unless the comparison is case-sensitive.
Folded(s, case_sensitive) == IF case_sensitive THEN s ELSE lower(s)

\* The record at position k matches a search: the query is a substring of
\* the name, one space and the description.
SearchMatches(k, query, case_sensitive) ==
    contains(Folded(datasets[k].name \o <<" ">> \o datasets[k].description, case_sensitive),
             Folded(query, case_sensitive))

\* C13 as amended: search_datasets(query, case_sensitive) returns, in original
\* list order, exactly the records for which query is a substring of the name,
\* one space and the description put together (both sides lower-cased unless
\* case_sensitive is true); with the empty query it returns every record.
C13_Search ==
    result.call = "search_datasets" =>
        LET query == result.args[1]
            case_sensitive == result.args[2]
        IN  /\ result.ret = RecordsAt({k \in 1..Len(datasets) :
                                        SearchMatches(k, query, case_sensitive)})
            /\ query = <<>> => result.ret = datasets

\* A case-insensitive search with an upper-case query returned one record of
\* two, and a case-sensitive one with the same query none.
C13_Witness ==
    /\ Parsed
    /\ Len(datasets) = 2
    /\ result.call = "search_datasets"
    /\ result.args[1] = Q_Alpha
    /\ \/ ~result.args[2] /\ Len(result.ret) = 1 /\ result.ret[1].name = N_Alpha
       \/ result.args[2] /\ result.ret = <<>> /\ datasets[1].name = N_Alpha

\* C13 as stated: the text searched is the concatenation of name and
\* description.
C13_SearchPlainConcatenation ==
    result.call = "search_datasets" =>
        LET query == result.args[1]
            case_sensitive == result.args[2]
            text(k) == datasets[k].name \o datasets[k].description
        IN  result.ret = RecordsAt({k \in 1..Len(datasets) :
                                     contains(Folded(text(k), case_sensitive),
                                              Folded(query, case_sensitive))})

\* C14: list_categories() returns one (category, count) pair per distinct
\* category present in datasets, count being the number of records of that
\* category, ordered by descending count; pairs with equal counts appear in
\* the order in which their categories were first seen in datasets.
C14_ListCategories ==
    result.call = "list_categories" =>
        LET ret == result.ret
            present == {datasets[k].category : k \in 1..Len(datasets)}
            count(c) == Cardinality({k \in 1..Len(datasets) : datasets[k].category = c})
            first_seen(c) == Min({k \in 1..Len(datasets) : datasets[k].category = c})
        IN  /\ Len(ret) = Cardinality(present)
            /\ {ret[i][1] : i \in 1..Len(ret)} = present
            /\ \A i \in 1..Len(ret) : ret[i][2] = count(ret[i][1])
            /\ \A i, j \in 1..Len(ret) :
                  i < j => \/ ret[i][2] > ret[j][2]
                           \/ /\ ret[i][2] = ret[j][2]
                              /\ first_seen(ret[i][1]) < first_seen(ret[j][1])

\* Two categories have the same count and are listed in the order in which
\* they were first seen.
C14_Witness ==
    /\ Parsed
    /\ result.call = "list_categories"
    /\ Len(result.ret) = 2
    /\ result.ret[1][2] = result.ret[2][2]
    /\ datasets[1].category = result.ret[1][1]

\* The category seen second has more records than the one seen first and is
\* listed before it.
C14_WitnessByCount ==
    /\ Parsed
    /\ result.call = "list_categories"
    /\ Len(result.ret) = 2
    /\ result.ret[1][2] > result.ret[2][2]
    /\ datasets[1].category = result.ret[2][1]

\* The record at position k qualifies for get_dataset_by_name.
NameQualifies(k, name, exact_match) ==
    IF exact_match THEN lower(datasets[k].name) = lower(name)
    ELSE contains(lower(datasets[k].name), lower(name))

\* C15: get_dataset_by_name(name, exact_match) returns a single record or
\* None, never a list: with exact_match true the first record in list order
\* whose name equals name ignoring case, with exact_match false the first
\* record in list order whose name contains name ignoring case; it returns
\* None exactly when no record qualifies.
C15_GetDatasetByName ==
    result.call = "get_dataset_by_name" =>
        LET name == result.args[1]
            exact_match == result.args[2]
            qualifying == {k \in 1..Len(datasets) : NameQualifies(k, name, exact_match)}
        IN  /\ qualifying = {} <=> result.ret = NotFound
            /\ qualifying # {} =>
                  \E k \in qualifying :
                      /\ result.ret = datasets[k]
                      /\ \A j \in qualifying : k <= j

\* Two different records qualify and the first of them was returned.
C15_Witness ==
    /\ Parsed
    /\ Len(datasets) >= 2
    /\ datasets[1].name # datasets[2].name
    /\ result.call = "get_dataset_by_name"
    /\ result.args = <<Q_Set, FALSE>>
    /\ result.ret = datasets[1]

\* C17: query misses are normal return values, never errors:
\* browse_by_category with a category that no record has (one that differs
\* only in letter case included) returns an empty list, search_datasets with
\* a query that matches nothing returns an empty list, get_dataset_by_name
\* with no matching record returns None; none of them raises.
C17_QueryMisses ==
    /\ result.call \in {"browse_by_category", "search_datasets", "get_dataset_by_name"}
          => result.exc = ""
    /\ (/\ result.call = "browse_by_category"
        /\ \A k \in 1..Len(datasets) : datasets[k].category # result.args[1])
          => result.ret = <<>>
    /\ (/\ result.call = "search_datasets"
        /\ \A k \in 1..Len(datasets) : ~SearchMatches(k, result.args[1], result.args[2]))
          => result.ret = <<>>
    /\ (/\ result.call = "get_dataset_by_name"
        /\ \A k \in 1..Len(datasets) : ~NameQualifies(k, result.args[1], result.args[2]))
          => result.ret = NotFound

\* browse_by_category was called with a category that differs only in letter
\* case from the category of a record, and returned the empty list.
C17_Witness ==
    /\ Parsed
    /\ Len(datasets) >= 1
    /\ result.call = "browse_by_category"
    /\ result.args[1] # datasets[1].category
    /\ lower(result.args[1]) = lower(datasets[1].category)
    /\ result.ret = <<>>
    /\ result.exc = ""

\* What the specification says of one criterion and the record at position k:
\* an attribute the record lacks matches nothing, a callable is called on the
\* value, a string is looked for in a string value ignoring letter case, and
\* any other value is compared for equality.
CriterionHolds(k, c) ==
    /\ c.attr \in DOMAIN datasets[k]
    /\ LET value == datasets[k][c.attr]
           holds_str == c.attr \in StringFields \/ (c.attr \in OptionalFields /\ value # None)
       IN  CASE c.kind = "callable" /\ c.value = "is_not_none" ->
                    c.attr \in OptionalFields => value # None
             [] c.kind = "callable" /\ c.value = "longer_than_50" -> Len(value) > 50
             [] c.kind = "str" ->
                    holds_str /\ \E i \in 0..Len(value) :
                        /\ i + Len(c.value) <= Len(value)
                        /\ lower(SubSeq(value, i + 1, i + Len(c.value))) = lower(c.value)
             [] c.kind = "bool" -> c.attr = "requires_registration" /\ value = c.value
             [] c.kind = "none" -> c.attr \in OptionalFields /\ value = None

\* The positions of the records that satisfy every criterion (match_all) or at
\* least one of them.
Satisfying(criteria, match_all) ==
    {k \in 1..Len(datasets) :
        IF match_all
        THEN \A i \in 1..Len(criteria) : CriterionHolds(k, criteria[i])
        ELSE \E i \in 1..Len(criteria) : CriterionHolds(k, criteria[i])}

\* C16 as stated: filter_datasets returns, in document order, the records
\* that satisfy every criterion when match_all is true and at least one
\* criterion when it is false. With no criterion at all and match_all false
\* no record satisfies at least one, yet every record is returned.
C16_FilterAsStated ==
    result.call = "filter_datasets"
        => /\ result.exc = ""
           /\ result.ret = RecordsAt(Satisfying(result.args[1], result.args[2]))

\* C16, amended: with at least one criterion filter_datasets returns, in
\* document order, the records that satisfy every criterion (match_all true) or
\* at least one (match_all false), a missing attribute matching nothing and
\* raising nothing; with no criterion it returns every record, whatever
\* match_all is.
C16_Filter ==
    result.call = "filter_datasets"
        => /\ result.exc = ""
           /\ result.args[1] # <<>>
                 => result.ret = RecordsAt(Satisfying(result.args[1], result.args[2]))
           /\ result.args[1] = <<>> => result.ret = datasets

\* filter_datasets was called with match_all false and two criteria, the
\* first on an attribute no record has, and returned a record that satisfies
\* the second one only, while another record was left out.
C16_Witness ==
    /\ Parsed
    /\ result.call = "filter_datasets"
    /\ result.exc = ""
    /\ result.args[2] = FALSE
    /\ Len(result.args[1]) = 2
    /\ Len(datasets) >= 2
    /\ result.args[1][1].attr \notin DOMAIN datasets[1]
    /\ Len(result.ret) >= 1
    /\ Len(result.ret) < Len(datasets)
    /\ \A j \in 1..Len(result.ret) : result.ret[j].paper_url # None

\* No record of the list has a description (the empty list included).
NoDescriptions == \A k \in 1..Len(datasets) : datasets[k].description = <<>>

\* C18 as stated: for every record list in which no record has a description
\* create_summary_statistics reports min_description_length = 0 and
\* with_description = 0. The empty list is such a list, and the call raises
\* ValueError on it instead of reporting anything.
C18_MinAsStated ==
    (result.call = "create_summary_statistics" /\ NoDescriptions)
        => /\ result.exc = ""
           /\ result.ret.description_statistics.min_description_length = 0
           /\ result.ret.description_statistics.with_description = 0

\* C18, amended: for every non-empty record list in which no record has a
\* description create_summary_statistics reports min_description_length = 0
\* and with_description = 0, and no report carries the infinite sentinel; on
\* the empty list it raises ValueError.
C18_Min ==
    result.call = "create_summary_statistics"
        => /\ datasets = <<>> <=> result.exc = "ValueError"
           /\ datasets # <<>> =>
                 /\ result.exc = ""
                 /\ result.ret.description_statistics.min_description_length # Infinity
                 /\ NoDescriptions =>
                       /\ result.ret.description_statistics.min_description_length = 0
                       /\ result.ret.description_statistics.with_description = 0

\* create_summary_statistics reported on three records, none with a
\* description, and the minimum it reported is 0.
C18_Witness ==
    /\ Parsed
    /\ Len(datasets) = 3
    /\ NoDescriptions
    /\ result.call = "create_summary_statistics"
    /\ result.exc = ""
    /\ result.ret.total_datasets = 3
    /\ result.ret.description_statistics.min_description_length = 0

\* value[key] of a loaded JSON object, JError when value is no object or has
\* no such key.
JsonGet(value, key) ==
    IF value.t = "dict" /\ \E i \in 1..Len(value.v) : value.v[i][1] = key
    THEN value.v[CHOOSE i \in 1..Len(value.v) : value.v[i][1] = key][2]
    ELSE JError

\* The record entries of a loaded export: the "datasets" array of the object.
Recovered(loaded) ==
    LET entries == JsonGet(loaded, <<"d","a","t","a","s","e","t","s">>)
    IN  IF entries.t = "list" THEN entries.v ELSE <<JError>>

RECURSIVE Words(_)
Words(s) ==
    LET a == skip_while(s, 1, Whitespace)
        b == skip_until(s, a, Whitespace)
    IN  IF a > Len(s) THEN <<>>
        ELSE <<SubSeq(s, a, b - 1)>> \o Words(SubSeq(s, b, Len(s)))

\* The description as format_dataset_output rendered it: the third line of
\* the output without the indentation and the label.
RenderedDescription ==
    LET line == split_lines(result.ret)[3]
    IN  SubSeq(line, 2 + Len(DescriptionLabel) + 1, Len(line))

Ellipsis == <<".", ".", ".">>

\* C20 as stated: with detailed=false a description longer than 100
\* characters is rendered as at most 100 characters that end with "..." and
\* hold whole words of the description only; a description of at most 100
\* characters, and any description with detailed=true, is rendered with all
\* its words. A description that starts with a word of 98 characters or more
\* is cut inside that word.
C20_TruncatedAtWordBoundary ==
    (/\ result.call = "format_dataset_output"
     /\ datasets[result.args[1]].description # <<>>)
        => LET description == datasets[result.args[1]].description
               detailed == result.args[2]
               rendered == RenderedDescription
               kept == SubSeq(rendered, 1, Len(rendered) - Len(Ellipsis))
           IN  IF ~detailed /\ Len(description) > 100
               THEN /\ Len(rendered) <= 100
                    /\ Len(rendered) >= Len(Ellipsis)
                    /\ SubSeq(rendered, Len(kept) + 1, Len(rendered)) = Ellipsis
                    /\ LET words == Words(kept)
                       IN  /\ Len(words) <= Len(Words(description))
                           /\ words = SubSeq(Words(description), 1, Len(words))
               ELSE Words(rendered) = Words(description)

\* The handlers of the commands.
Handlers ==
    {"handle_search", "handle_browse", "handle_list_categories", "handle_stats",
     "handle_get", "handle_export"}

\* The exception a handler's body meets: the write of a file that cannot be
\* written, by "stats --format json --output" and by "export" once it has
\* datasets to write.
HandlerMeetsException ==
    \/ /\ result.call = "handle_stats"
       /\ result.args[1].format = "json"
       /\ result.args[1].output \notin {None, <<>>}
       /\ ~result.args[2]
    \/ /\ result.call = "handle_export"
       /\ ~result.args[2]
       /\ \/ result.args[1].category \in {None, <<>>}
          \/ \E k \in 1..Len(datasets) : datasets[k].category = result.args[1].category

\* What a command fails at without an exception: "get" finds no dataset,
\* "export --category" finds no dataset to write.
HandlerFindsNothing ==
    \/ /\ result.call = "handle_get"
       /\ \A k \in 1..Len(datasets) :
             ~NameQualifies(k, result.args.name, result.args.exact)
    \/ /\ result.call = "handle_export"
       /\ result.args[1].category \notin {None, <<>>}
       /\ \A k \in 1..Len(datasets) : datasets[k].category # result.args[1].category

\* C21: every command handler returns 0 or 1 and nothing else: 1 when an
\* exception is raised inside it (a file that cannot be written) or when it
\* finds no dataset to get or to export, 0 otherwise, search and browse
\* without results included; an export that returned 0 has written the file.
C21_ExitStatus ==
    result.call \in Handlers
        => /\ result.exc = ""
           /\ result.ret \in {0, 1}
           /\ result.ret = 1 <=> (HandlerMeetsException \/ HandlerFindsNothing)
           /\ result.call \in {"handle_search", "handle_browse"} => result.ret = 0
           /\ (result.call = "handle_export" /\ result.ret = 0) => json_file # None

\* "get" was run with a name no dataset has and returned 1, on a document
\* with datasets.
C21_Witness ==
    /\ Parsed
    /\ Len(datasets) >= 1
    /\ result.call = "handle_get"
    /\ \A k \in 1..Len(datasets) : ~NameQualifies(k, result.args.name, result.args.exact)
    /\ result.ret = 1

\* "export" was run on a path that cannot be written and returned 1, leaving
\* no file.
C21_WitnessUnwritable ==
    /\ Parsed
    /\ Len(datasets) >= 1
    /\ result.call = "handle_export"
    /\ ~result.args[2]
    /\ result.args[1].category = None
    /\ result.ret = 1
    /\ json_file = None

\* "search" was run with a query no dataset matches and returned 0.
C21_WitnessNoResults ==
    /\ Parsed
    /\ Len(datasets) >= 1
    /\ result.call = "handle_search"
    /\ \A k \in 1..Len(datasets) :
          ~SearchMatches(k, result.args.query, result.args.case_sensitive)
    /\ result.ret = 0

\* The calls that read the record collection.
ReadingCalls ==
    {"search_datasets", "browse_by_category", "list_categories", "get_dataset_by_name",
     "filter_datasets", "create_summary_statistics"}

\* C22: a step that completes search_datasets, browse_by_category,
\* list_categories, get_dataset_by_name, filter_datasets or
\* create_summary_statistics leaves datasets as it was (same records, same
\* field values, same order), and after parsing datasets is at every moment
\* the list parse_readme made of the document, whatever was called since.
C22_ReadOnly ==
    /\ [][result'.call \in ReadingCalls => datasets' = datasets]_vars
    /\ [](Parsed => datasets = parse_lines(<<>>, readme))

\* filter_datasets returned fewer records than the collection holds, and the
\* collection is still the list of three records parse_readme made.
C22_Witness ==
    /\ Parsed
    /\ Len(datasets) = 3
    /\ result.call = "filter_datasets"
    /\ Len(result.ret) \in 1..2
    /\ datasets = parse_lines(<<>>, readme)

\* The trimmed line begins and ends with the double-underscore delimiter.
Wrapped(line) ==
    LET trimmed == strip(line)
    IN  /\ Len(trimmed) >= 2
        /\ SubSeq(trimmed, 1, 2) = <<"_", "_">>
        /\ SubSeq(trimmed, Len(trimmed) - 1, Len(trimmed)) = <<"_", "_">>

\* C23 as stated: every record starts at a line whose trimmed content is
\* wrapped in "__", and a document with a category header, a title and body
\* lines, none of them wrapped, gives one record that holds every body line.
\* The parser starts a record at every line that begins with "__": the line
\* '__Requires registration__. Data can only be used for research.' becomes
\* a second record.
C23_TitleIsWrapped ==
    Parsed =>
        /\ \A k \in 1..Len(datasets) : Wrapped(RecordLines(datasets[k])[1])
        /\ Len(datasets) = Cardinality({i \in 2..Len(readme) : Wrapped(readme[i])})
        /\ \A k \in 1..Len(datasets) :
              (k = Len(datasets) /\ \A i \in 3..Len(readme) : ~Wrapped(readme[i]))
                  => RecordLines(datasets[k]) = SubSeq(readme, 2, Len(readme))

\* The line holds one of the four registration phrases, in any letter case.
HasRegistrationPhrase(line) ==
    \E phrase \in RegistrationKeywords :
        \E i \in 0..(Len(line) - Len(phrase)) :
            lower(SubSeq(line, i + 1, i + Len(phrase))) = phrase

\* C24: a record none of whose source lines holds any of the four
\* registration phrases is emitted with requires_registration = false.
C24_NoFalsePositive ==
    Parsed =>
        \A k \in 1..Len(datasets) :
            (\A i \in 1..Len(RecordLines(datasets[k])) :
                ~HasRegistrationPhrase(RecordLines(datasets[k])[i]))
                => ~datasets[k].requires_registration

\* A record with the line 'No registration needed.' and no registration
\* phrase was emitted with requires_registration = false.
C24_Witness ==
    /\ Parsed
    /\ Len(datasets) = 1
    /\ \E i \in 1..Len(readme) : readme[i] = L_NoReg
    /\ \A i \in 1..Len(readme) : ~HasRegistrationPhrase(readme[i])
    /\ ~datasets[1].requires_registration

\* A record with a registration phrase was emitted with
\* requires_registration = true.
C24_WitnessPositive ==
    /\ Parsed
    /\ Len(datasets) = 1
    /\ datasets[1].requires_registration

\* The document ends inside a record: its last title line follows a category
\* header and no "***", title or category header comes after it.
EndsInRecord(doc) ==
    /\ TitlePositions(doc) # <<>>
    /\ LET last == TitlePositions(doc)[Len(TitlePositions(doc))]
       IN  \A i \in (last + 1)..Len(doc) :
               doc[i] \notin HeaderLines \cup TitleLines \cup {L_Separator}

\* C25: when the document ends, the records are those emitted by the time a
\* "***" line appended to the document has been read; a record that the
\* document ends in is emitted, last in the list, starting at its title line.
C25_EndOfDocumentFinalizes ==
    Parsed =>
        /\ datasets = loop(initial_locals(<<>>), Append(readme, L_Separator)).datasets
        /\ EndsInRecord(readme) =>
              /\ datasets # <<>>
              /\ RecordLines(datasets[Len(datasets)])[1]
                     = readme[TitlePositions(readme)[Len(TitlePositions(readme))]]

\* A document that ends with a body line of its second record was parsed:
\* both records were emitted, the last one with that line.
C25_Witness ==
    /\ Parsed
    /\ EndsInRecord(readme)
    /\ Len(readme) >= 2
    /\ readme[Len(readme)] \in BodyLines
    /\ Len(datasets) = 2
    /\ LET lines == RecordLines(datasets[2])
       IN  Len(lines) >= 2 /\ lines[Len(lines)] = readme[Len(readme)]

\* 'https://u.org/d'
U_AccessReg == <<"h","t","t","p","s",":","/","/","u",".","o","r","g","/","d">>

\* text occurs in s
Occurs(text, s) ==
    \E i \in 0..(Len(s) - Len(text)) : SubSeq(s, i + 1, i + Len(text)) = text

\* C26: a record with the line 'Access: https://u.org/d (requires
\* registration)' has requires_registration = true and access_url =
\* 'https://u.org/d', and a record with the prose line 'This set REQUIRES
\* Registration first.' has requires_registration = true and that text in
\* its description.
C26_CheckDoesNotConsume ==
    Parsed =>
        \A k \in 1..Len(datasets) :
            \A i \in 2..Len(RecordLines(datasets[k])) :
                LET line == RecordLines(datasets[k])[i]
                IN  /\ line = L_AccessReg
                          => /\ datasets[k].requires_registration
                             /\ datasets[k].access_url = U_AccessReg
                    /\ line = L_ProseReg
                          => /\ datasets[k].requires_registration
                             /\ Occurs(L_ProseReg, datasets[k].description)

\* A record with the label line 'Access: https://u.org/d (requires
\* registration)' as its only body line was emitted with the flag and the URL.
C26_Witness ==
    /\ Parsed
    /\ readme = <<H_Imaging, T_Alpha, L_AccessReg>>
    /\ Len(datasets) = 1
    /\ datasets[1].requires_registration
    /\ datasets[1].access_url = U_AccessReg
    /\ datasets[1].description = <<>>

\* A record with the prose line 'This set REQUIRES Registration first.' after
\* another prose line was emitted with the flag and both texts described.
C26_WitnessProse ==
    /\ Parsed
    /\ readme = <<H_Imaging, T_Alpha, L_Prose, L_ProseReg>>
    /\ Len(datasets) = 1
    /\ datasets[1].requires_registration
    /\ datasets[1].description = L_Prose \o <<" ">> \o L_ProseReg

\* 'https://x.org/b'
U_Paper2 == <<"h","t","t","p","s",":","/","/","x",".","o","r","g","/","b">>

\* The body lines that begin with a label.
LabelLines == {L_Paper, L_Paper2, L_PaperNone, L_AccessReg}

\* The URL a 'Paper:' line carries, None for 'Paper: None'.
PaperOf(line) ==
    IF line = L_Paper THEN U_Paper ELSE IF line = L_Paper2 THEN U_Paper2 ELSE None

\* C29: the paper_url of a record is what its last 'Paper:' line carries, the
\* URL of that line or None for 'Paper: None', whatever earlier 'Paper:' lines
\* set (None without any such line); and the description is made of the
\* lines without a label only.
C29_LastLabelWins ==
    Parsed =>
        \A k \in 1..Len(datasets) :
            LET lines == RecordLines(datasets[k])
                papers == {i \in 2..Len(lines) : lines[i] \in {L_Paper, L_Paper2, L_PaperNone}}
                prose == SelectSeq(Tail(lines), LAMBDA line : line \notin LabelLines)
            IN  /\ datasets[k].paper_url
                      = IF papers = {} THEN None ELSE PaperOf(lines[Max(papers)])
                /\ datasets[k].description = join(<<" ">>, prose)

\* A record with 'Paper: https://x.org/a', then 'Paper: https://x.org/b',
\* then 'Paper: None' was emitted with paper_url None and no description.
C29_Witness ==
    /\ Parsed
    /\ readme = <<H_Imaging, T_Alpha, L_Paper, L_Paper2, L_PaperNone>>
    /\ Len(datasets) = 1
    /\ datasets[1].paper_url = None
    /\ datasets[1].description = <<>>

\* A record with 'Paper: None', then 'Paper: https://x.org/a', then
\* 'Paper: https://x.org/b' was emitted with the last URL.
C29_WitnessReplaced ==
    /\ Parsed
    /\ readme = <<H_Imaging, T_Alpha, L_PaperNone, L_Paper, L_Paper2>>
    /\ Len(datasets) = 1
    /\ datasets[1].paper_url = U_Paper2

\* C27 as stated: after one or more calls of parse_readme on one browser
\* over an unchanged document, datasets is the list one call produces and
\* list_categories reports the counts of one call. The second call appends
\* every record once more.
C27_NoAccumulation ==
    (Parsed /\ parse_calls >= 1)
        => /\ datasets = parse_lines(<<>>, readme)
           /\ list_categories(datasets) = list_categories(parse_lines(<<>>, readme))

\* The position that ends the record whose title line is at position i: the
\* next "***", title line or category header, or the end of the document.
EndOfRecord(doc, i) ==
    Min({j \in (i + 1)..Len(doc) : doc[j] \in HeaderLines \cup TitleLines \cup {L_Separator}}
            \cup {Len(doc) + 1})

\* The non-blank lines from a title line up to the end of its record.
LinesOfRecord(doc, i) ==
    SelectSeq(SubSeq(doc, i, EndOfRecord(doc, i) - 1), LAMBDA l : l \notin BlankLines)

\* C28: within one parse_readme, datasets holds exactly one record per title
\* line that occurs after the first category header, none dropped and none
\* duplicated, whichever of "***", the next title line, the next category
\* header or the end of the document ends the record; each record is built
\* from the non-blank lines from its title up to that end, so a non-blank line
\* that follows a "***" or a category header before the next title belongs to
\* no record.
C28_OneRecordPerTitle ==
    /\ (pc = "loop" /\ ~in_dataset) => current_dataset_lines = <<>>
    /\ Parsed =>
          LET ts == TitlePositions(readme)
          IN  /\ Len(datasets) = Len(ts)
              /\ \A k \in 1..Len(ts) :
                    RecordLines(datasets[k]) = LinesOfRecord(readme, ts[k])

\* A record ended by "***" is followed by a non-blank line that no record holds.
C28_Witness ==
    /\ Parsed
    /\ readme = <<H_Imaging, T_Alpha, L_Separator, L_Prose>>
    /\ Len(datasets) = 1
    /\ RecordLines(datasets[1]) = <<T_Alpha>>

\* A record ended by a category header is followed by a non-blank line that
\* no record holds.
C28_WitnessHeader ==
    /\ Parsed
    /\ readme = <<H_Imaging, T_Alpha, H_EHR, L_Prose>>
    /\ Len(datasets) = 1
    /\ RecordLines(datasets[1]) = <<T_Alpha>>

\* Records ended by the next title line and by the end of the document.
C28_WitnessTitle ==
    /\ Parsed
    /\ readme = <<H_Imaging, T_Alpha, L_Prose, T_Beta>>
    /\ Len(datasets) = 2
    /\ RecordLines(datasets[1]) = <<T_Alpha, L_Prose>>
    /\ RecordLines(datasets[2]) = <<T_Beta>>

\* a can be had from b by deleting elements of b.
RECURSIVE IsSubSequence(_, _)
IsSubSequence(a, b) ==
    IF a = <<>> THEN TRUE
    ELSE IF b = <<>> THEN FALSE
    ELSE IF Head(a) = Head(b) THEN IsSubSequence(Tail(a), Tail(b))
    ELSE IsSubSequence(a, Tail(b))

\* C30: filter_datasets with empty criteria returns every record, in order,
\* whether match_all is true or false; with non-empty criteria the records
\* returned for match_all = true are a sub-sequence of the records the same
\* criteria return for match_all = false, and both are sub-sequences of the
\* record list.
C30_FilterMonotone ==
    result.call = "filter_datasets"
        => LET criteria == result.args[1]
               match_all == result.args[2]
               any_result == filter_datasets(datasets, criteria, FALSE)
           IN  /\ criteria = <<>> => result.ret = datasets
               /\ IsSubSequence(result.ret, datasets)
               /\ (criteria # <<>> /\ match_all) => IsSubSequence(result.ret, any_result)

\* Two criteria with match_all true returned some records, fewer than the
\* same criteria return with match_all false.
C30_Witness ==
    /\ Parsed
    /\ result.call = "filter_datasets"
    /\ Len(result.args[1]) = 2
    /\ result.args[2] = TRUE
    /\ Len(result.ret) >= 1
    /\ Len(result.ret) < Len(filter_datasets(datasets, result.args[1], FALSE))

\* Empty criteria with match_all false returned a list of several records.
C30_WitnessEmptyCriteria ==
    /\ Parsed
    /\ result.call = "filter_datasets"
    /\ result.args[1] = <<>>
    /\ result.args[2] = FALSE
    /\ Len(result.ret) >= 2
    /\ result.ret = datasets

====
